---- MODULE Spec2Model ----
(***************************************************************************)
(* lazycap: the interactive host loop (internal/ui/model.go), the process  *)
(* record (internal/ui/styles.go) and the process engine (runCmdWithPipes  *)
(* and its reader / wait tasks), with the bridge callbacks the host wires  *)
(* in NewModelWithPlugins.                                                 *)
(*                                                                         *)
(* Go semantics the model relies on:                                       *)
(*  - Model.Update has a value receiver and returns its copy; the handlers *)
(*    that mutate through pointer-receiver helpers inside the return       *)
(*    statement (return m, m.runAction(..)) return the mutated copy: the   *)
(*    gc compiler evaluates the call before it copies m into the result.   *)
(*  - the closures passed to SetCallbacks capture the local variable m of  *)
(*    NewModelWithPlugins, which is a different Model value from the copy  *)
(*    the Bubble Tea program runs with (closureM below).                   *)
(*  - every tea.Cmd runs in its own goroutine and hands its message to the *)
(*    loop over an unbuffered channel: messages of concurrently finished   *)
(*    commands are handled in any order (inbox is a bag).                  *)
(*  - a send on a closed channel panics, and a panic in a goroutine that   *)
(*    nobody recovers ends the program (crashed).                          *)
(***************************************************************************)
EXTENDS Integers, Sequences, FiniteSets, Bags, TLC

VARIABLES
    processes,        \* Model.processes: the process list, in creation order
    nextProcessID,    \* Model.nextProcessID
    outputChans,      \* Model.outputChans: the process numbers with a registered queue
    devices,          \* Model.devices
    eng,              \* per runCmd: the command, its queue, its readers, its subscriptions
    boots,            \* bootDevice commands in progress
    loads,            \* loadDevices commands in progress
    inbox,            \* messages of finished tea.Cmds that Update has not handled yet
    crashed,          \* an unrecovered panic has ended the program
    closureM,         \* the Model captured by the bridge callbacks
    killReqs,         \* history: IDs for which a kill was requested while Running with a command
    killResult,       \* what the step just taken returned to the caller of a bridge operation
    ctx,              \* the AppContext (the bridge): wiring, lock, log channel, log cache
    mcp,              \* the MCP server: its connections and what it answered
    plug              \* a plugin instance and the tasks that call or belong to it

hostVars == <<processes, nextProcessID, outputChans, devices,
              eng, boots, loads, inbox, crashed, closureM, killReqs>>
plugVars == <<ctx, mcp, plug>>
vars == <<processes, nextProcessID, outputChans, devices,
          eng, boots, loads, inbox, crashed, closureM, killReqs, killResult,
          ctx, mcp, plug>>

(***************************************************************************)
(* Bounds of the model.                                                    *)
(***************************************************************************)
MaxProcs == 2       \* createProcess is called at most this many times
MaxLines == 1       \* lines a command writes to its two pipes together
MaxSysLogs == 1     \* addLog is called while the first process holds fewer lines of the host
LogSlack == 1       \* SpecLog starts with a log at most this short of LogCap
BurstSlack == 1     \* SpecBurst starts with a queue at most this short of ChanCap
MaxLogCalls == 102  \* calls of the bridge's Log
MaxCached == 2      \* calls of the bridge's AddProcessLog
MaxRequests == 3    \* lines a client sends on its connection

(***************************************************************************)
(* Program constants.                                                      *)
(***************************************************************************)
LogCap == 5000
ChanCap == 100
LogChanCap == 100

ProcessRunning == "Running"
ProcessSuccess == "Succeeded"
ProcessFailed == "Failed"
ProcessCancelled == "Cancelled"
Terminal == {ProcessSuccess, ProcessFailed, ProcessCancelled}

ZeroTime == "zero"      \* the zero time.Time of a field never assigned
Now == "now"            \* a reading of time.Now()

Procs == 1..MaxProcs
Streams == {1, 2}       \* 1: stdout, 2: stderr

\* fmt.Sprintf("p%d", n), and the literal "system"
ProcID(n) == <<"p", n>>
SystemID == <<"system", 0>>
IDs == {ProcID(n) : n \in Procs} \cup {SystemID}

\* A log line or queue entry: <<text, process number, stream, index>>.
Line(text, n, s, k) == <<text, n, s, k>>
Text(text) == <<text, 0, 0, 0>>
OutLine(n, s, k) == <<"out", n, s, k>>
NoLine == Text("")

Min(S) == CHOOSE x \in S : \A y \in S : x <= y

(***************************************************************************)
(* The process record (styles.go).                                         *)
(***************************************************************************)
Process(id, status, logs) ==
    [ID |-> id, Status |-> status, EndTime |-> ZeroTime, Logs |-> logs, Cmd |-> 0]

\* An append that never trims.
AddLogUntrimmed(p, line) == [p EXCEPT !.Logs = Append(@, line)]

\* Process.AddLog: append, then keep the last LogCap entries.
AddLog(p, line) ==
    LET l == Append(p.Logs, line)
    IN  [p EXCEPT !.Logs = IF Len(l) > LogCap
                           THEN SubSeq(l, Len(l) - LogCap + 1, Len(l))
                           ELSE l]

(***************************************************************************)
(* Helpers of the host loop.  They work on the part of the Model they      *)
(* change: m = [processes, nextProcessID].  Model.selectedProcess is not    *)
(* kept: nothing but the Kill key reads it, and the user moves it to any   *)
(* process of the list (Tab, Left, Right) without any other effect.        *)
(***************************************************************************)
M == [processes |-> processes, nextProcessID |-> nextProcessID]

\* Model.getSelectedDevice: the index in the list (from 1), 0 for nil.
\* The world has one device, so Model.selectedDevice stays 0.
getSelectedDevice == IF Len(devices) = 0 THEN 0 ELSE 1

\* Model.addLog: the first call on an empty list creates the "system" process,
\* every other call appends to the first process of the list.
addLog(m, text) ==
    IF Len(m.processes) = 0
    THEN [m EXCEPT !.processes = <<Process(SystemID, ProcessSuccess, <<Text(text)>>)>>]
    ELSE [m EXCEPT !.processes[1] = AddLog(m.processes[1], Text(text))]

\* Model.createProcess: the new process is the last of the list.
createProcess(m) ==
    [processes |-> Append(m.processes,
                          Process(ProcID(m.nextProcessID), ProcessRunning, <<Text("$ command")>>)),
     nextProcessID |-> m.nextProcessID + 1]

\* The first process of the list with the ID (and, for the finished message,
\* still Running): the loops of Update break at the first match.  0: none.
FirstWithID(ps, id) ==
    LET S == {i \in 1..Len(ps) : ps[i].ID = id}
    IN  IF S = {} THEN 0 ELSE Min(S)

\* A lookup that does not test the status.
FirstOfAnyStatus(ps, id) == FirstWithID(ps, id)

FirstRunningWithID(ps, id) ==
    LET S == {i \in 1..Len(ps) : ps[i].ID = id /\ ps[i].Status = ProcessRunning}
    IN  IF S = {} THEN 0 ELSE Min(S)

(***************************************************************************)
(* Messages (model.go 562-582) and the engine's state per command.         *)
(***************************************************************************)
Msg(type, n, line, err, devs) ==
    [type |-> type, n |-> n, line |-> line, err |-> err, devs |-> devs]
processStartedMsg(n) == Msg("processStarted", n, NoLine, FALSE, <<>>)
processOutputMsg(n, line) == Msg("processOutput", n, line, FALSE, <<>>)
processFinishedMsg(n, err) == Msg("processFinished", n, NoLine, err, <<>>)
deviceBootedMsg(dev, err) == Msg("deviceBooted", 0, Text(dev), err, <<>>)
devicesLoadedMsg(devs) == Msg("devicesLoaded", 0, NoLine, FALSE, devs)
errMsg == Msg("err", 0, NoLine, TRUE, <<>>)

Send(m) == inbox (+) SetToBag({m})
Take(m) == inbox (-) SetToBag({m})

Exited == {"exit0", "exit1", "killed"}

\* What the last step returned to the caller of AppContext.KillProcess:
\* <<process ID, "ok" or "error">>, NoResult if the step was no such call.
NoResult == <<>>

\* AppContext.mu is not held: an RLock or Lock of it succeeds at once.
Unlocked == ctx.mu = "free"

\* The event bus of the plugin manager, for one event type: nothing is
\* subscribed and nothing has been emitted.
Bus0 == [subs |-> <<>>,        \* the subscribed handlers, in subscription order
         emitting |-> FALSE,   \* an Emit is invoking handlers
         snap |-> <<>>,        \* the copy of the list the Emit iterates over
         at |-> 1,             \* the next position of the iteration
         got |-> <<>>,         \* the handlers the last Emit has invoked, in order
         atEmit |-> <<>>,      \* history: the list at the moment of the last Emit
         emits |-> 0]          \* calls of Emit

\* NewAppContext: nothing is wired, the log channel (capacity LogChanCap)
\* and the log cache are empty.
Ctx0 == [callbacks |-> FALSE,   \* SetCallbacks has been called
         settings |-> "nil",    \* the settings store: nil, clean (as on disk), dirty
         project |-> FALSE,     \* SetProject has been called
         handlers |-> {},       \* what is subscribed to process-output on the event bus
         mu |-> "free",         \* AppContext.mu: free, or write-locked
         pc |-> "idle",         \* the caller of AddProcessLog: idle, emit, blocked
         todo |-> {},           \* the handlers the current Emit has yet to invoke
         processLogs |-> <<>>,  \* the lines cached in processLogs for process p1
         logChan |-> <<>>,      \* the entries queued in logChan
         logCalls |-> 0,        \* how many times Log has been called
         bus |-> Bus0]          \* c.manager.GetEventBus()

\* runApp up to tea.NewProgram: SetProject, then NewModelWithPlugins calls
\* SetSettings and SetCallbacks.
CtxWired == [Ctx0 EXCEPT !.callbacks = TRUE, !.settings = "clean", !.project = TRUE]

\* The arguments of a tools/call as the tools read them: a string parameter
\* that is absent, or not a string, reads as "", an absent process ID as
\* NoID, and value is the dynamic type of the "value" entry ("nil": absent).
\* present tells whether the call carries an arguments map at all.
NoID == <<"", 0>>
NoArgs == [present |-> FALSE, deviceId |-> "", platform |-> "", processId |-> NoID,
           actionId |-> "", key |-> "", value |-> "nil"]

\* The params payload of a request: kind is "absent", "mistyped" for one
\* that does not decode, or "call" for a tool name with its arguments.
NoCall == [name |-> "", args |-> NoArgs]

NoParams == [kind |-> "absent", call |-> NoCall]

\* MCPRequest.  An ID is the JSON text of the "id" member: a number, a
\* string, or null (NilID, also for a request without the member).
NilID == "null"
MCPRequest(id, method, params) == [ID |-> id, Method |-> method, Params |-> params]
ZeroRequest == MCPRequest(NilID, "", NoParams)

\* The response that has not been written, the line that has not been read.
NoRequestLine == [kind |-> "none", req |-> ZeroRequest]
NoResponse == [ID |-> NilID, Result |-> [kind |-> "none", tools |-> <<>>, text |-> ""],
               Error |-> 0]

\* A call of Start, Stop or StopAll by one of the program's tasks: what is
\* called, how far the call has come, and what the last call returned.
NoCallOp == [op |-> "none",   \* Start, Stop or StopAll while the call runs
             pc |-> "idle",   \* idle, check, lock, serve, fail, log
             gen |-> 0,       \* the stop channel this Start has made; for StopAll,
                              \* the Starts that had gone ahead when it was called
             again |-> FALSE, \* StopAll: an earlier StopAll had stopped everything
             of |-> "none",   \* the call that returned last
             ret |-> "none"]  \* what it returned: nil, err

\* mcp.New or firebase.New, as registered by RegisterAll, and the program
\* around it at the start of runApp or runDemoMode.
Plugin0 == [variant |-> "mcp",    \* mcp or firebase
            path |-> "app",       \* runApp or runDemoMode
            main |-> "InitAll",   \* the main task: InitAll, AutoStart, Run, Quit, Final, Exit
            sig |-> "wait",       \* the signal task: none, wait, StopAll, done
            inits |-> 0,          \* calls of Init; p.ctx is set when positive
            mode |-> "tcp",       \* p.mode
            config |-> FALSE,     \* p.configPath is set
            running |-> FALSE,    \* p.running
            stopCh |-> 1,         \* p.stopCh: the number of the channel
            closes |-> <<0>>,     \* per channel made: the calls of close on it
            res |-> 0,            \* p.listener or p.cmd: 0 for nil
            emulators |-> FALSE,  \* p.emulators: the Running flag of the configured service
            made |-> <<>>,        \* per listener or command made: open, calls of Close or Signal
            call |-> [main |-> NoCallOp, sig |-> NoCallOp],
            tasks |-> {},         \* the background tasks started so far
            starts |-> 0,         \* calls of Start that found the plugin not running
            stoppedAll |-> FALSE, \* a StopAll has returned and no Start has gone ahead since
            fault |-> "none"]     \* the panic that ended the program

\* mcp.New: the server is not running and has no connection.
MCP0 == [running |-> FALSE,      \* p.running
         stopped |-> FALSE,      \* p.stopCh is closed
         conn |-> "none",        \* the connection: none, open, closed
         handled |-> 0,          \* the responses written to the connection
         line |-> NoRequestLine, \* the last line handled
         resp |-> NoResponse,    \* the last response written
         calls |-> <<>>,         \* the bridge operations the last request invoked
         initialized |-> FALSE,  \* an initialize request has been answered
         memo |-> {}]            \* every line answered, with the bridge's state then

Engine0 == [run |-> "idle",       \* the runCmd tea.Cmd: idle, queued, spawned, failed
            os |-> "none",        \* the OS process: none, running, exit0, exit1, killed
            buf |-> <<>>,         \* the output queue ch
            closed |-> FALSE,     \* close(ch) has been called
            scanned |-> <<0, 0>>, \* lines each reader has taken from its pipe
            waiters |-> 0,        \* waitForOutput commands blocked on ch
            finished |-> 0]       \* processFinishedMsg values produced so far

\* cap.ListDevices in a world with one device: an emulator that is booted
\* ("online") or not ("offline"), or the web target ("web")
\* or nothing at all ("none")
DeviceKinds == {"offline", "online", "web", "none"}
Device(w) == [ID |-> "dev", Online |-> w # "offline", IsWeb |-> w = "web"]
ListDevices(w) == IF w = "none" THEN <<>> ELSE <<Device(w)>>
\* cap.Project of the working directory
project == [HasIOS |-> TRUE, HasAndroid |-> FALSE]

Init ==
    /\ processes = <<>>
    /\ nextProcessID = 1
    /\ outputChans = {}
    /\ devices = <<>>
    /\ eng = [n \in Procs |-> Engine0]
    /\ boots = 0
    /\ loads = 1
    /\ inbox = EmptyBag
    /\ crashed = FALSE
    /\ closureM = [processes |-> <<>>, devices |-> <<>>]
    /\ killReqs = {}
    /\ killResult = NoResult
    /\ ctx = CtxWired
    /\ mcp = MCP0
    /\ plug = Plugin0

(***************************************************************************)
(* The run / sync / build / open intents (Model.runAction and the start    *)
(* helpers).  Each returns the changed model and the tea.Cmd it hands      *)
(* back: "run" (runCmd or runWebCmd for the new process), "boot"           *)
(* (bootDevice) or "none".                                                 *)
(***************************************************************************)
startRunCommand(m) == [m |-> createProcess(m), cmd |-> "run"]
startSyncCommand(m) == [m |-> createProcess(m), cmd |-> "run"]
startBuildCommand(m) == [m |-> createProcess(m), cmd |-> "run"]
startOpenCommand(m) == [m |-> createProcess(m), cmd |-> "run"]

\* Model.startWebDevCommand: the process gets a second log line before it starts.
startWebDevCommand(m) ==
    LET c == createProcess(m)
        i == Len(c.processes)
    IN  [m |-> [c EXCEPT !.processes[i] = AddLog(c.processes[i], Text("Starting dev server"))],
         cmd |-> "run"]

runAction(action) ==
    LET dev == getSelectedDevice IN
    CASE action = "run" ->
            IF dev = 0 THEN [m |-> addLog(M, "No device selected"), cmd |-> "none"]
            ELSE IF devices[dev].IsWeb THEN startWebDevCommand(M)
            ELSE IF ~devices[dev].Online
                 THEN LET c == createProcess(addLog(M, "Booting"))
                          i == Len(c.processes)
                      IN  [m |-> [c EXCEPT !.processes[i] =
                                     AddLog(c.processes[i], Text("Waiting for simulator..."))],
                           cmd |-> "boot"]
            ELSE startRunCommand(M)
      [] action = "sync" -> startSyncCommand(M)
      [] action = "build" -> startBuildCommand(M)
      [] action = "open" ->
            IF dev = 0
            THEN IF project.HasIOS \/ project.HasAndroid THEN startOpenCommand(M)
                 ELSE [m |-> addLog(M, "No platform available"), cmd |-> "none"]
            ELSE IF devices[dev].IsWeb
                 THEN [m |-> addLog(M, "Opened browser"), cmd |-> "none"]
            ELSE startOpenCommand(M)

\* Room left under the bounds: every boot in progress will create one more process.
BootsPending == boots + CopiesIn(deviceBootedMsg("dev", FALSE), inbox)
Free == MaxProcs - (nextProcessID - 1) - BootsPending
\* The lines the host passes to Model.addLog.
HostTexts == {"No device selected", "Booting", "No platform available",
              "Opened browser", "Boot failed", "Error: devices"}

\* The host's own lines in the log of process p.
HostLines(p) == {i \in 1..Len(p.Logs) : p.Logs[i][1] \in HostTexts}

SysLogRoom ==
    IF Len(processes) = 0 THEN TRUE
    ELSE Cardinality(HostLines(processes[1])) < MaxSysLogs

\* The user gives intents once the device load of Init has been handled.
Loaded == loads = 0 /\ \A msg \in BagToSet(inbox) : msg.type \notin {"devicesLoaded", "err"}

SetM(m) ==
    /\ processes' = m.processes
    /\ nextProcessID' = m.nextProcessID

\* Update, tea.KeyMsg: Run, Sync, Build, Open
KeyAction(action) ==
    LET r == runAction(action) IN
    /\ ~crashed
    /\ Loaded
    /\ CASE r.cmd = "run" -> Free >= 1
         [] r.cmd = "boot" -> Free >= 2
         [] r.cmd = "none" -> SysLogRoom
    /\ SetM(r.m)
    /\ eng' = IF r.cmd = "run" THEN [eng EXCEPT ![nextProcessID].run = "queued"] ELSE eng
    /\ boots' = IF r.cmd = "boot" THEN boots + 1 ELSE boots
    /\ UNCHANGED <<outputChans, devices, loads, inbox, crashed,
                   closureM, killReqs>>
    /\ killResult' = NoResult
    /\ UNCHANGED plugVars

\* os.Process.Kill on the command of engine e
Kill(e) == [e EXCEPT !.os = IF e.os = "running" THEN "killed" ELSE e.os]

\* A guard that does not test the status.
KillableAnyStatus(p) == p.Cmd # 0

\* The guard the Kill key and the KillProcess callback share.
Killable(p) == p.Status = ProcessRunning /\ p.Cmd # 0

\* Update, tea.KeyMsg: Kill, with process i selected (getSelectedProcess;
\* i = 0: nil, the list is empty)
KeyKill(i) ==
    /\ ~crashed
    /\ (i = 0) = (Len(processes) = 0)
    /\ IF i # 0 /\ Killable(processes[i])
       THEN /\ eng' = [eng EXCEPT ![processes[i].Cmd] = Kill(@)]
            /\ processes' = [processes EXCEPT ![i] =
                                AddLog([@ EXCEPT !.Status = ProcessCancelled,
                                                 !.EndTime = Now],
                                       Text("Killed by user"))]
            /\ killReqs' = killReqs \cup {processes[i].ID}
       ELSE UNCHANGED <<eng, processes, killReqs>>
    /\ killResult' = NoResult
    /\ UNCHANGED plugVars
    /\ UNCHANGED <<nextProcessID, outputChans, devices,
                   boots, loads, inbox, crashed, closureM>>

(***************************************************************************)
(* The process engine: runCmd / runWebCmd -> runCmdWithPipes, the two      *)
(* reader tasks, the wait task, and the waitForOutput subscriptions.       *)
(***************************************************************************)
\* runCmdWithPipes, cmd.Start() succeeded: the reader tasks and the wait task
\* are launched on the running command.
Spawned(e) == [e EXCEPT !.run = "spawned", !.os = "running"]

\* A failure path that leaves the queue open.
SpawnErrorOpen(e) == [e EXCEPT !.run = "failed"]

\* runCmdWithPipes, a pipe or cmd.Start() failed: close(ch), nothing is launched.
SpawnError(e) == [e EXCEPT !.run = "failed", !.closed = TRUE]

\* runCmdWithPipes: the pipes or the spawn fail (the queue is closed and the
\* finished message carries the error), or the command starts, the three
\* tasks are launched and the started message is returned.
runCmdWithPipes(n, ok) ==
    /\ ~crashed
    /\ eng[n].run = "queued"
    /\ IF ok
       THEN /\ eng' = [eng EXCEPT ![n] = Spawned(@)]
            /\ inbox' = Send(processStartedMsg(n))
       ELSE /\ eng' = [eng EXCEPT ![n] = [SpawnError(@) EXCEPT !.finished = @ + 1]]
            /\ inbox' = Send(processFinishedMsg(n, TRUE))
    /\ UNCHANGED <<processes, nextProcessID, outputChans, devices,
                   boots, loads, crashed, closureM, killReqs>>
    /\ killResult' = NoResult
    /\ UNCHANGED plugVars

\* The texts a command may write: a line with text, or one that is empty
\* once the ANSI sequences and the white space are removed.
LineTexts == {"out"}

\* A send that ignores the capacity of the queue.
TrySendUnbounded(e, line) ==
    IF e.closed THEN [panic |-> TRUE, buf |-> e.buf]
    ELSE [panic |-> FALSE, buf |-> Append(e.buf, line)]

\* select { case ch <- line: default: } on a queue (buf, closed): the send
\* panics on a closed queue, drops the line on a full one.
TrySend(e, line) ==
    IF e.closed THEN [panic |-> TRUE, buf |-> e.buf]
    ELSE IF Len(e.buf) < ChanCap THEN [panic |-> FALSE, buf |-> Append(e.buf, line)]
    ELSE [panic |-> FALSE, buf |-> e.buf]

\* A reader task (s = 1: stdout, 2: stderr): scanner.Scan returns the next
\* line of the pipe and the task enqueues it.  Lines the command wrote before
\* it exited stay readable from the scanner's buffer after cmd.Wait has
\* closed the pipe, so the step is possible whenever lines are left.
Reader(n, s, text) ==
    LET k == eng[n].scanned[s] + 1
        r == TrySend(eng[n], Line(text, n, s, k))
    IN  /\ ~crashed
        /\ eng[n].run = "spawned"
        /\ eng[n].scanned[1] + eng[n].scanned[2] < MaxLines
        /\ eng' = [eng EXCEPT ![n].scanned[s] = k, ![n].buf = r.buf]
        /\ crashed' = r.panic
        /\ UNCHANGED <<processes, nextProcessID, outputChans, devices, boots, loads, inbox, closureM, killReqs>>
        /\ killResult' = NoResult
        /\ UNCHANGED plugVars

\* The command exits by itself, with exit code 0 or not.
CmdExit(n, code) ==
    /\ ~crashed
    /\ eng[n].os = "running"
    /\ eng' = [eng EXCEPT ![n].os = code]
    /\ UNCHANGED <<processes, nextProcessID, outputChans, devices,
                   boots, loads, inbox, crashed, closureM, killReqs>>
    /\ killResult' = NoResult
    /\ UNCHANGED plugVars

\* The wait task: cmd.Wait() returns once the command has exited (its result
\* is discarded), then close(ch).
WaitTask(n) ==
    /\ ~crashed
    /\ eng[n].run = "spawned"
    /\ eng[n].os \in Exited
    /\ ~eng[n].closed
    /\ eng' = [eng EXCEPT ![n].closed = TRUE]
    /\ UNCHANGED <<processes, nextProcessID, outputChans, devices,
                   boots, loads, inbox, crashed, closureM, killReqs>>
    /\ killResult' = NoResult
    /\ UNCHANGED plugVars

\* A receive that reports the closure while lines are still queued.
waitForOutputEarly(n) ==
    /\ ~crashed
    /\ eng[n].waiters > 0
    /\ \/ /\ eng[n].buf # <<>>
          /\ ~eng[n].closed
          /\ eng' = [eng EXCEPT ![n].buf = Tail(@), ![n].waiters = @ - 1]
          /\ inbox' = Send(processOutputMsg(n, Head(eng[n].buf)))
       \/ /\ eng[n].closed
          /\ eng' = [eng EXCEPT ![n].waiters = @ - 1, ![n].finished = @ + 1]
          /\ inbox' = Send(processFinishedMsg(n, FALSE))
    /\ UNCHANGED <<processes, nextProcessID, outputChans, devices,
                   boots, loads, crashed, closureM, killReqs>>
    /\ killResult' = NoResult
    /\ UNCHANGED plugVars

\* waitForOutput: line, ok := <-ch
waitForOutput(n) ==
    /\ ~crashed
    /\ eng[n].waiters > 0
    /\ \/ /\ eng[n].buf # <<>>
          /\ eng' = [eng EXCEPT ![n].buf = Tail(@), ![n].waiters = @ - 1]
          /\ inbox' = Send(processOutputMsg(n, Head(eng[n].buf)))
       \/ /\ eng[n].buf = <<>>
          /\ eng[n].closed
          /\ eng' = [eng EXCEPT ![n].waiters = @ - 1, ![n].finished = @ + 1]
          /\ inbox' = Send(processFinishedMsg(n, FALSE))
    /\ UNCHANGED <<processes, nextProcessID, outputChans, devices,
                   boots, loads, crashed, closureM, killReqs>>
    /\ killResult' = NoResult
    /\ UNCHANGED plugVars

\* bootDevice: cap.BootDevice fails or times out, or the device comes up
\* (dev.Online = true is written through the pointer into Model.devices).
bootDevice(ok) ==
    /\ ~crashed
    /\ boots > 0
    /\ boots' = boots - 1
    /\ inbox' = Send(deviceBootedMsg("dev", ~ok))
    /\ devices' = IF ok
                  THEN [i \in 1..Len(devices) |-> [devices[i] EXCEPT !.Online = TRUE]]
                  ELSE devices
    /\ UNCHANGED <<processes, nextProcessID, outputChans, eng,
                   loads, crashed, closureM, killReqs>>
    /\ killResult' = NoResult
    /\ UNCHANGED plugVars

\* loadDevices: cap.ListDevices fails (w = "err") or returns the list
loadDevices(w) ==
    /\ ~crashed
    /\ loads > 0
    /\ loads' = loads - 1
    /\ inbox' = Send(IF w = "err" THEN errMsg ELSE devicesLoadedMsg(ListDevices(w)))
    /\ UNCHANGED <<processes, nextProcessID, outputChans, devices,
                   eng, boots, crashed, closureM, killReqs>>
    /\ killResult' = NoResult
    /\ UNCHANGED plugVars

(***************************************************************************)
(* Update: the messages.                                                   *)
(***************************************************************************)
\* strings.TrimSpace(ansiRegex.ReplaceAllString(line, ""))
Clean(line) == IF line[1] = "blank" THEN NoLine ELSE line

UpdateStarted(msg) ==
    LET i == FirstWithID(processes, ProcID(msg.n)) IN
    /\ ~crashed
    /\ msg.type = "processStarted"
    /\ inbox' = Take(msg)
    /\ IF i # 0
       THEN /\ processes' = [processes EXCEPT ![i].Cmd = msg.n]
            /\ outputChans' = outputChans \cup {msg.n}
       ELSE UNCHANGED <<processes, outputChans>>
    /\ eng' = [eng EXCEPT ![msg.n].waiters = @ + 1]
    /\ UNCHANGED <<nextProcessID, devices, boots, loads, crashed, closureM, killReqs>>
    /\ killResult' = NoResult
    /\ UNCHANGED plugVars

\* An output handler that arms two subscriptions.
UpdateOutputArmsTwo(msg) ==
    LET i == FirstWithID(processes, ProcID(msg.n)) IN
    /\ ~crashed
    /\ msg.type = "processOutput"
    /\ inbox' = Take(msg)
    /\ processes' = IF i # 0 /\ msg.line # NoLine /\ Clean(msg.line) # NoLine
                    THEN [processes EXCEPT ![i] = AddLog(@, Clean(msg.line))]
                    ELSE processes
    /\ eng' = IF msg.n \in outputChans
              THEN [eng EXCEPT ![msg.n].waiters = @ + 2] ELSE eng
    /\ UNCHANGED <<nextProcessID, outputChans, devices, boots, loads,
                   crashed, closureM, killReqs>>
    /\ killResult' = NoResult
    /\ UNCHANGED plugVars

UpdateOutput(msg) ==
    LET i == FirstWithID(processes, ProcID(msg.n)) IN
    /\ ~crashed
    /\ msg.type = "processOutput"
    /\ inbox' = Take(msg)
    /\ processes' = IF i # 0 /\ msg.line # NoLine /\ Clean(msg.line) # NoLine
                    THEN [processes EXCEPT ![i] = AddLog(@, Clean(msg.line))]
                    ELSE processes
    /\ eng' = IF msg.n \in outputChans
              THEN [eng EXCEPT ![msg.n].waiters = @ + 1] ELSE eng
    /\ UNCHANGED <<nextProcessID, outputChans, devices, boots, loads,
                   crashed, closureM, killReqs>>
    /\ killResult' = NoResult
    /\ UNCHANGED plugVars

UpdateFinished(msg) ==
    LET i == FirstRunningWithID(processes, ProcID(msg.n)) IN
    /\ ~crashed
    /\ msg.type = "processFinished"
    /\ inbox' = Take(msg)
    /\ processes' =
         IF i = 0 THEN processes
         ELSE IF msg.err
         THEN [processes EXCEPT ![i] =
                  [AddLog([@ EXCEPT !.Status = ProcessFailed], Text("Error: command"))
                      EXCEPT !.EndTime = Now]]
         ELSE [processes EXCEPT ![i] =
                  [AddLog([@ EXCEPT !.Status = ProcessSuccess], Text("Done"))
                      EXCEPT !.EndTime = Now]]
    /\ outputChans' = outputChans \ {msg.n}
    /\ UNCHANGED <<nextProcessID, devices, eng, boots, loads, crashed, closureM, killReqs>>
    /\ killResult' = NoResult
    /\ UNCHANGED plugVars

UpdateBooted(msg) ==
    /\ ~crashed
    /\ msg.type = "deviceBooted"
    /\ inbox' = Take(msg)
    /\ IF msg.err
       THEN /\ SetM(addLog(M, "Boot failed"))
            /\ UNCHANGED <<devices, eng>>
       ELSE LET S == {i \in 1..Len(devices) : devices[i].ID = msg.line[1]}
                r == startRunCommand(M)
            IN  /\ devices' = IF S = {} THEN devices
                              ELSE [devices EXCEPT ![Min(S)].Online = TRUE]
                /\ SetM(r.m)
                /\ eng' = [eng EXCEPT ![nextProcessID].run = "queued"]
    /\ UNCHANGED <<outputChans, boots, loads, crashed, closureM,
                   killReqs>>
    /\ killResult' = NoResult
    /\ UNCHANGED plugVars

UpdateDevicesLoaded(msg) ==
    /\ ~crashed
    /\ msg.type = "devicesLoaded"
    /\ inbox' = Take(msg)
    /\ devices' = msg.devs
    /\ UNCHANGED <<processes, nextProcessID, outputChans, eng, boots,
                   loads, crashed, closureM, killReqs>>
    /\ killResult' = NoResult
    /\ UNCHANGED plugVars

UpdateErr(msg) ==
    /\ ~crashed
    /\ msg.type = "err"
    /\ inbox' = Take(msg)
    /\ SetM(addLog(M, "Error: devices"))
    /\ UNCHANGED <<outputChans, devices, eng, boots, loads, crashed,
                   closureM, killReqs>>
    /\ killResult' = NoResult
    /\ UNCHANGED plugVars

(***************************************************************************)
(* The bridge callbacks of NewModelWithPlugins run on the captured Model.  *)
(***************************************************************************)
\* The KillProcess callback: the first process of the captured list with the
\* ID, Running and with a command is killed; otherwise an error is returned.
KillProcess(processID) ==
    LET ps == closureM.processes
        S == {i \in 1..Len(ps) : ps[i].ID = processID /\ Killable(ps[i])}
    IN  IF S = {} THEN [err |-> TRUE, cmd |-> 0]
        ELSE [err |-> FALSE, cmd |-> ps[Min(S)].Cmd]

\* The GetProcesses callback's switch on p.Status
StatusText(status) ==
    CASE status = ProcessRunning -> "running"
      [] status = ProcessSuccess -> "success"
      [] status = ProcessFailed -> "failed"
      [] status = ProcessCancelled -> "cancelled"
      [] OTHER -> "unknown"

\* plugin.ProcessInfo of a process
ProcessInfo(p) == [ID |-> p.ID, Status |-> StatusText(p.Status)]

\* AppContext.GetDevices: the callback returns the captured Model's devices;
\* nil before the callbacks are wired.
GetDevices == IF ctx.callbacks THEN closureM.devices ELSE <<>>

\* AppContext.GetProcesses: the callback lists the captured Model's processes.
GetProcesses ==
    IF ctx.callbacks
    THEN [i \in 1..Len(closureM.processes) |-> ProcessInfo(closureM.processes[i])]
    ELSE <<>>

\* AppContext.GetProcessLogs: the log of the first process with the ID in the
\* captured Model, nil if there is none.
GetProcessLogs(processID) ==
    LET i == FirstWithID(closureM.processes, processID)
    IN  IF ctx.callbacks /\ i # 0 THEN closureM.processes[i].Logs ELSE <<>>

\* AppContext.RunOnDevice and its callback: nil if the captured Model lists
\* the device, an error otherwise; the callback starts nothing.
RunOnDevice(deviceID) ==
    IF ~ctx.callbacks THEN "unavailable"
    ELSE IF \E i \in 1..Len(closureM.devices) : closureM.devices[i].ID = deviceID
         THEN "ok" ELSE "error"

\* AppContext.RunWeb, Sync, Build, OpenIDE: their callbacks return nil.
RunWeb == IF ~ctx.callbacks THEN "unavailable" ELSE "ok"
Sync(platform) == IF ~ctx.callbacks THEN "unavailable" ELSE "ok"
Build == IF ~ctx.callbacks THEN "unavailable" ELSE "ok"
OpenIDE(platform) == IF ~ctx.callbacks THEN "unavailable" ELSE "ok"

\* The intents with the argument each is called with: a device ID, a
\* platform, or none.
Intents == {<<"run_on_device", "dev">>, <<"run_web", "">>, <<"sync", "ios">>,
            <<"build", "">>, <<"open_ide", "ios">>}

\* What the bridge returns for an intent with its argument (a device ID or
\* a platform).
Intent(op, arg) ==
    CASE op = "run_on_device" -> RunOnDevice(arg)
      [] op = "run_web" -> RunWeb
      [] op = "sync" -> Sync(arg)
      [] op = "build" -> Build
      [] op = "open_ide" -> OpenIDE(arg)

\* A plugin or the RPC server calls one of the intents on the bridge: none of
\* the callbacks touches the host loop or the engine.
BridgeIntent(op, arg) ==
    /\ ~crashed
    /\ Unlocked
    /\ killResult' = <<op, arg, Intent(op, arg)>>
    /\ UNCHANGED hostVars
    /\ UNCHANGED plugVars

\* Is the process Running in the host loop's list, its command still running?
RunningInLoop(id) ==
    \E i \in 1..Len(processes) :
        /\ processes[i].ID = id
        /\ Killable(processes[i])
        /\ eng[processes[i].Cmd].os = "running"

\* AppContext.KillProcess (the kill_process tool): the callback is wired
\* before any plugin starts.
BridgeKill(id) ==
    LET r == KillProcess(id) IN
    /\ ~crashed
    /\ Unlocked
    /\ eng' = IF ~ctx.callbacks \/ r.err THEN eng ELSE [eng EXCEPT ![r.cmd] = Kill(@)]
    /\ killResult' = <<id, IF ~ctx.callbacks THEN "unavailable"
                            ELSE IF r.err THEN "error" ELSE "ok">>
    /\ UNCHANGED plugVars
    /\ killReqs' = IF RunningInLoop(id) THEN killReqs \cup {id} ELSE killReqs
    /\ UNCHANGED <<processes, nextProcessID, outputChans, devices,
                   boots, loads, inbox, crashed, closureM>>

\* AppContext.GetSelectedDevice: the callback's index in the captured Model's
\* device list (from 1), 0 for nil.
GetSelectedDevice == IF ctx.callbacks /\ Len(closureM.devices) # 0 THEN 1 ELSE 0

\* AppContext.RefreshDevices: the callback returns nil.
RefreshDevices == IF ~ctx.callbacks THEN "unavailable" ELSE "ok"

\* The dynamic types a setting's value can have; "nil" is no value.
ValueTypes == {"bool", "string", "int", "float64", "nil"}

\* AppContext.SetSetting: the type switch on the value.
SetSetting(key, value) ==
    IF ctx.settings = "nil" THEN "unavailable"
    ELSE IF value \in {"bool", "string", "int", "float64"} THEN "ok"
    ELSE "error"

\* AppContext.SaveSettings
SaveSettings == IF ctx.settings = "nil" THEN "unavailable" ELSE "ok"

\* The bridge's getters, which return a value and no error.
Getters == {<<"get_devices", "">>, <<"get_selected_device", "">>,
            <<"get_processes", "">>, <<"get_process_logs", ProcID(1)>>}

Getter(op, arg) ==
    CASE op = "get_devices" -> GetDevices
      [] op = "get_selected_device" -> GetSelectedDevice
      [] op = "get_processes" -> GetProcesses
      [] op = "get_process_logs" -> GetProcessLogs(arg)

\* A plugin calls one of the getters: it returns the value, "ok" standing
\* for the absence of any error in what the caller gets.
BridgeGet(op, arg) ==
    /\ ~crashed
    /\ Unlocked
    /\ killResult' = <<op, arg, "ok", Getter(op, arg)>>
    /\ UNCHANGED hostVars
    /\ UNCHANGED plugVars

BridgeRefresh ==
    /\ ~crashed
    /\ Unlocked
    /\ killResult' = <<"refresh_devices", "", RefreshDevices>>
    /\ UNCHANGED hostVars
    /\ UNCHANGED plugVars

BridgeSetSetting(key, value) ==
    /\ ~crashed
    /\ Unlocked
    /\ killResult' = <<"set_setting", value, SetSetting(key, value)>>
    /\ ctx' = IF SetSetting(key, value) = "ok" THEN [ctx EXCEPT !.settings = "dirty"]
              ELSE ctx
    /\ UNCHANGED hostVars
    /\ UNCHANGED <<mcp, plug>>

BridgeSaveSettings ==
    /\ ~crashed
    /\ Unlocked
    /\ killResult' = <<"save_settings", "", SaveSettings>>
    /\ ctx' = IF SaveSettings = "ok" THEN [ctx EXCEPT !.settings = "clean"] ELSE ctx
    /\ UNCHANGED hostVars
    /\ UNCHANGED <<mcp, plug>>

\* The entry of the n-th call of Log.
PluginLogEntry(n) == [PluginID |-> "mcp", Message |-> n]

\* A send that ignores the capacity of the channel.
LogSendUnbounded(ch, entry) == Append(ch, entry)

\* select { case c.logChan <- entry: default: }: the entry is dropped when
\* the channel is full.
LogSend(ch, entry) == IF Len(ch) < LogChanCap THEN Append(ch, entry) ELSE ch

\* AppContext.Log: takes no lock; nothing in the program receives from the
\* channel.
Log ==
    /\ ctx.logCalls < MaxLogCalls
    /\ ctx' = [ctx EXCEPT !.logCalls = @ + 1,
                          !.logChan = LogSend(@, PluginLogEntry(ctx.logCalls + 1))]
    /\ killResult' = NoResult
    /\ UNCHANGED hostVars
    /\ UNCHANGED <<mcp, plug>>

\* AppContext.SetCallbacks, SetSettings and SetProject, each under the
\* write lock.
SetCallbacks ==
    /\ Unlocked
    /\ ~ctx.callbacks
    /\ ctx' = [ctx EXCEPT !.callbacks = TRUE]
    /\ killResult' = NoResult
    /\ UNCHANGED hostVars
    /\ UNCHANGED <<mcp, plug>>

SetSettings ==
    /\ Unlocked
    /\ ctx.settings = "nil"
    /\ ctx' = [ctx EXCEPT !.settings = "clean"]
    /\ killResult' = NoResult
    /\ UNCHANGED hostVars
    /\ UNCHANGED <<mcp, plug>>

SetProject ==
    /\ Unlocked
    /\ ~ctx.project
    /\ ctx' = [ctx EXCEPT !.project = TRUE]
    /\ killResult' = NoResult
    /\ UNCHANGED hostVars
    /\ UNCHANGED <<mcp, plug>>

\* What a handler subscribed to process-output does with the bridge: it
\* calls GetProject, or GetDevices, or nothing.
Handlers == {"GetProject", "GetDevices", "none"}

\* AppContext.Subscribe: the handler is registered with the event bus.
Subscribe(h) ==
    /\ h \notin ctx.handlers
    /\ ctx' = [ctx EXCEPT !.handlers = @ \cup {h}]
    /\ killResult' = NoResult
    /\ UNCHANGED hostVars
    /\ UNCHANGED <<mcp, plug>>

\* AppContext.AddProcessLog up to its call of the event bus: c.mu.Lock(),
\* the line is cached, and Emit starts on the handlers subscribed, the lock
\* still held (the unlock is deferred).
AddProcessLog(processID) ==
    /\ ctx.pc = "idle"
    /\ Unlocked
    /\ Len(ctx.processLogs) < MaxCached
    /\ ctx' = [ctx EXCEPT !.mu = "write",
                          !.processLogs = Append(@, Len(@) + 1),
                          !.pc = "emit",
                          !.todo = ctx.handlers]
    /\ killResult' = NoResult
    /\ UNCHANGED hostVars
    /\ UNCHANGED <<mcp, plug>>

\* The event bus invokes a handler in the emitter's own context.  A handler
\* that calls GetProject or GetDevices starts with c.mu.RLock(): it never
\* returns while the emitter holds the write lock.
EmitHandler(h) ==
    /\ ctx.pc = "emit"
    /\ h \in ctx.todo
    /\ ctx' = IF h \in {"GetProject", "GetDevices"} /\ ~Unlocked
              THEN [ctx EXCEPT !.pc = "blocked"]
              ELSE [ctx EXCEPT !.todo = @ \ {h}]
    /\ killResult' = NoResult
    /\ UNCHANGED hostVars
    /\ UNCHANGED <<mcp, plug>>

\* Emit has invoked every handler: AddProcessLog returns and its deferred
\* c.mu.Unlock() runs.
AddProcessLogReturn ==
    /\ ctx.pc = "emit"
    /\ ctx.todo = {}
    /\ ctx' = [ctx EXCEPT !.mu = "free", !.pc = "idle"]
    /\ killResult' = NoResult
    /\ UNCHANGED hostVars
    /\ UNCHANGED <<mcp, plug>>

(***************************************************************************)
(* The RPC server (package mcp): one connection of a started server.       *)
(***************************************************************************)
\* The error codes of the protocol.
CodeParseError == -32700
CodeMethodNotFound == -32601
CodeInvalidParams == -32602
CodeAppError == -32000

\* handleToolsList: the catalog, in its order, and the parameters each
\* tool's schema declares as required.
ToolNames == <<"list_devices", "run_on_device", "run_web", "sync", "build",
               "open_ide", "get_processes", "get_logs", "get_all_logs",
               "kill_process", "get_debug_actions", "run_debug_action",
               "get_settings", "set_setting", "get_project">>

Required(name) ==
    CASE name = "run_on_device" -> {"deviceId"}
      [] name = "open_ide" -> {"platform"}
      [] name \in {"get_logs", "kill_process"} -> {"processId"}
      [] name = "run_debug_action" -> {"actionId"}
      [] name = "set_setting" -> {"key", "value"}
      [] OTHER -> {}

ToolInfo(name) == [Name |-> name, required |-> Required(name)]

Arguments ==
    {NoArgs} \cup [present : {TRUE}, deviceId : {"", "dev"}, platform : {"", "ios"},
                   processId : {NoID, ProcID(1)}, actionId : {"", "good", "bad"},
                   key : {"", "key"}, value : {"nil", "bool"}]

\* The parameters an arguments map carries, and those a tool reads.
Given(args) ==
    {f \in {"deviceId", "platform", "actionId", "key"} : args[f] # ""}
      \cup (IF args.processId # NoID THEN {"processId"} ELSE {})
      \cup (IF args.value # "nil" THEN {"value"} ELSE {})

Reads(name) == IF name = "sync" THEN {"platform"} ELSE Required(name)

\* The tool calls a client makes: a tool name, in the catalog or not, with
\* arguments among those the tool reads.
Calls ==
    {c \in [name : {ToolNames[i] : i \in 1..Len(ToolNames)} \cup {"bogus"},
              args : Arguments] :
        /\ Given(c.args) \subseteq Reads(c.name)
        /\ Reads(c.name) = {} => c.args.present}

Requests ==
    {ZeroRequest}
      \cup {MCPRequest(id, m, NoParams) :
              id \in {"abc", "9007199254740993"}, m \in {"tools/list", "bogus"}}
      \cup {MCPRequest("7", m, NoParams) :
              m \in {"initialize", "tools/list", "tools/call", "bogus"}}
      \cup {MCPRequest("7", "tools/call", [kind |-> "mistyped", call |-> NoCall])}
      \cup {MCPRequest("7", "tools/call", [kind |-> "call", call |-> c]) : c \in Calls}

\* The lines a client sends: text that is not JSON, JSON that does not
\* decode into an MCPRequest (an array, a number as method), or a request.
RequestLines ==
    {[kind |-> k, req |-> ZeroRequest] : k \in {"garbage", "mistyped"}}
      \cup {[kind |-> "request", req |-> r] : r \in Requests}

\* A decoder that accepts every line.
UnmarshalAny(line) == [err |-> FALSE, req |-> line.req]

\* The "id" member decoded into the interface{} field and encoded again in
\* the response: a JSON number becomes a float64, so an integer beyond 2^53
\* comes back as the nearest float64; null and strings come back as sent.
DecodeID(id) == IF id = "9007199254740993" THEN "9007199254740992" ELSE id

\* json.Unmarshal([]byte(line), &req)
Unmarshal(line) ==
    [err |-> line.kind # "request", req |-> [line.req EXCEPT !.ID = DecodeID(@)]]

\* The result payloads, and what a tool returns: the result, the error code
\* (0: nil) and the bridge operations it has invoked.
NoPayload == [kind |-> "none", tools |-> <<>>, text |-> ""]
Content(text) == [kind |-> "content", tools |-> <<>>, text |-> text]
Ok(text, calls) == [Result |-> Content(text), Error |-> 0, calls |-> calls]
Fail(code, calls) == [Result |-> NoPayload, Error |-> code, calls |-> calls]

\* debug.RunAction: the action "good" succeeds, any other fails.
RunDebugAction(actionID) == [Success |-> actionID = "good"]

\* AppContext.KillProcess seen from its caller.
KillProcessResult(processID) ==
    IF ~ctx.callbacks THEN "unavailable"
    ELSE IF KillProcess(processID).err THEN "error" ELSE "ok"

toolListDevices == Ok("devices", <<"GetDevices">>)

toolRunOnDevice(args) ==
    IF args.deviceId = "" THEN Fail(CodeInvalidParams, <<>>)
    ELSE IF RunOnDevice(args.deviceId) # "ok" THEN Fail(CodeAppError, <<"RunOnDevice">>)
    ELSE Ok("Started run on", <<"RunOnDevice">>)

toolRunWeb ==
    IF RunWeb # "ok" THEN Fail(CodeAppError, <<"RunWeb">>)
    ELSE Ok("Web dev server started", <<"RunWeb">>)

toolSync(args) ==
    IF Sync(args.platform) # "ok" THEN Fail(CodeAppError, <<"Sync">>)
    ELSE Ok(IF args.platform # "" THEN "Sync started for" ELSE "Sync started", <<"Sync">>)

toolBuild ==
    IF Build # "ok" THEN Fail(CodeAppError, <<"Build">>)
    ELSE Ok("Build started", <<"Build">>)

toolOpenIDE(args) ==
    IF args.platform = "" THEN Fail(CodeInvalidParams, <<>>)
    ELSE IF OpenIDE(args.platform) # "ok" THEN Fail(CodeAppError, <<"OpenIDE">>)
    ELSE Ok("Opening IDE", <<"OpenIDE">>)

toolGetProcesses == Ok("processes", <<"GetProcesses">>)

toolGetLogs(args) ==
    IF args.processId = NoID THEN Fail(CodeInvalidParams, <<>>)
    ELSE Ok("logs", <<"GetProcessLogs">>)

toolGetAllLogs(args) == Ok("all logs", <<"GetAllLogs", "GetProcesses">>)

toolKillProcess(args) ==
    IF args.processId = NoID THEN Fail(CodeInvalidParams, <<>>)
    ELSE IF KillProcessResult(args.processId) # "ok"
         THEN Fail(CodeAppError, <<"KillProcess">>)
    ELSE Ok("Process killed", <<"KillProcess">>)

toolGetDebugActions == Ok("debug actions", <<"GetDebugActions">>)

toolRunDebugAction(args) ==
    IF args.actionId = "" THEN Fail(CodeInvalidParams, <<>>)
    ELSE Ok(IF RunDebugAction(args.actionId).Success THEN "success: true"
            ELSE "success: false", <<"RunDebugAction">>)

toolGetSettings == Ok("settings", <<"GetSettings">>)

toolSetSetting(args) ==
    IF args.key = "" THEN Fail(CodeInvalidParams, <<>>)
    ELSE IF SetSetting(args.key, args.value) # "ok"
         THEN Fail(CodeAppError, <<"SetSetting">>)
    ELSE Ok("Setting updated", <<"SetSetting">>)

toolGetProject ==
    IF ~ctx.project THEN Fail(CodeAppError, <<"GetProject">>)
    ELSE Ok("project", <<"GetProject">>)

handleInitialize == [kind |-> "initialize", tools |-> <<>>, text |-> "lazycap"]

\* A catalog that is empty until an initialize request has been answered.
handleToolsListAfterInit ==
    [kind |-> "tools",
     tools |-> IF mcp.initialized
               THEN [i \in 1..Len(ToolNames) |-> ToolInfo(ToolNames[i])] ELSE <<>>,
     text |-> ""]

handleToolsList ==
    [kind |-> "tools", tools |-> [i \in 1..Len(ToolNames) |-> ToolInfo(ToolNames[i])],
     text |-> ""]

\* A default case that lists the devices.
UnknownToolListsDevices(name) == toolListDevices

\* handleToolsCall, the default case of the switch on the name.
UnknownTool(name) == Fail(CodeMethodNotFound, <<>>)

\* handleToolsCall: the params payload decodes into a name and an arguments
\* map, or the call is refused; the switch on the name.
handleToolsCall(params) ==
    LET name == params.call.name
        args == params.call.args
    IN  IF params.kind # "call" THEN Fail(CodeInvalidParams, <<>>)
        ELSE CASE name = "list_devices" -> toolListDevices
               [] name = "run_on_device" -> toolRunOnDevice(args)
               [] name = "run_web" -> toolRunWeb
               [] name = "sync" -> toolSync(args)
               [] name = "build" -> toolBuild
               [] name = "open_ide" -> toolOpenIDE(args)
               [] name = "get_processes" -> toolGetProcesses
               [] name = "get_logs" -> toolGetLogs(args)
               [] name = "get_all_logs" -> toolGetAllLogs(args)
               [] name = "kill_process" -> toolKillProcess(args)
               [] name = "get_debug_actions" -> toolGetDebugActions
               [] name = "run_debug_action" -> toolRunDebugAction(args)
               [] name = "get_settings" -> toolGetSettings
               [] name = "set_setting" -> toolSetSetting(args)
               [] name = "get_project" -> toolGetProject
               [] OTHER -> UnknownTool(name)

\* handleRequest: the response (ID, Result, Error) and the bridge
\* operations invoked on the way.
handleRequest(line) ==
    LET u == Unmarshal(line)
        r == CASE u.err -> Fail(CodeParseError, <<>>)
               [] ~u.err /\ u.req.Method = "initialize" ->
                    [Result |-> handleInitialize, Error |-> 0, calls |-> <<>>]
               [] ~u.err /\ u.req.Method = "tools/list" ->
                    [Result |-> handleToolsList, Error |-> 0, calls |-> <<>>]
               [] ~u.err /\ u.req.Method = "tools/call" -> handleToolsCall(u.req.Params)
               [] OTHER -> Fail(CodeMethodNotFound, <<>>)
    IN  [ID |-> IF u.err THEN NilID ELSE u.req.ID,
         Result |-> r.Result, Error |-> r.Error, calls |-> r.calls]

\* What a response depends on besides the request: the bridge's wiring, its
\* settings store and the Model its callbacks read.
BridgeState == <<ctx.callbacks, ctx.settings, ctx.project, closureM>>

\* handleConnection, one turn of its loop with the server running:
\* scanner.Scan returns a line, the line is handled (the bridge operations
\* it invokes take effect) and the response is written to the connection.
Serve(line) ==
    LET r == handleRequest(line)
        id == line.req.Params.call.args.processId
        resp == [ID |-> r.ID, Result |-> r.Result, Error |-> r.Error]
    IN  /\ mcp.conn = "open"
        /\ ~mcp.stopped
        /\ mcp.handled < MaxRequests
        /\ Unlocked
        /\ ~crashed
        /\ mcp' = [mcp EXCEPT !.handled = @ + 1,
                              !.line = line,
                              !.resp = resp,
                              !.calls = r.calls,
                              !.initialized = @ \/ (~Unmarshal(line).err
                                                    /\ line.req.Method = "initialize"),
                              !.memo = @ \cup {[line |-> line, at |-> BridgeState,
                                                resp |-> resp]}]
        /\ ctx' = IF r.calls = <<"SetSetting">> /\ r.Error = 0
                  THEN [ctx EXCEPT !.settings = "dirty"] ELSE ctx
        /\ eng' = IF r.calls = <<"KillProcess">> /\ r.Error = 0
                  THEN [eng EXCEPT ![KillProcess(id).cmd] = Kill(@)] ELSE eng
        /\ killReqs' = IF r.calls = <<"KillProcess">> /\ RunningInLoop(id)
                       THEN killReqs \cup {id} ELSE killReqs
        /\ killResult' = NoResult
        /\ UNCHANGED <<processes, nextProcessID, outputChans, devices,
                       boots, loads, inbox, crashed, closureM, plug>>

\* handleConnection: scanner.Scan returns false (the client has closed the
\* connection, or the read failed); the deferred conn.Close() runs.
Disconnect ==
    /\ mcp.conn = "open"
    /\ mcp' = [mcp EXCEPT !.conn = "closed"]
    /\ killResult' = NoResult
    /\ UNCHANGED hostVars
    /\ UNCHANGED <<ctx, plug>>

\* handleConnection: a line arrives after Stop has closed stopCh; the task
\* returns without handling it.
ObserveStop ==
    /\ mcp.conn = "open"
    /\ mcp.stopped
    /\ mcp' = [mcp EXCEPT !.conn = "closed"]
    /\ killResult' = NoResult
    /\ UNCHANGED hostVars
    /\ UNCHANGED <<ctx, plug>>

\* MCPPlugin.Stop on the running server: stopCh is closed, and the bridge's
\* Log is called.
Stop ==
    /\ mcp.running
    /\ mcp' = [mcp EXCEPT !.running = FALSE, !.stopped = TRUE]
    /\ ctx' = [ctx EXCEPT !.logCalls = @ + 1,
                          !.logChan = LogSend(@, PluginLogEntry(ctx.logCalls + 1))]
    /\ killResult' = NoResult
    /\ UNCHANGED hostVars
    /\ UNCHANGED plug

(***************************************************************************)
(* Specifications.                                                         *)
(***************************************************************************)
Keys ==
    \/ \E action \in {"run", "sync", "build", "open"} : KeyAction(action)
    \/ \E i \in 0..Len(processes) : KeyKill(i)

\* The tasks of a started command.
Tasks ==
    \/ \E n \in Procs, s \in Streams, text \in LineTexts : Reader(n, s, text)
    \/ \E n \in Procs, code \in {"exit0", "exit1"} : CmdExit(n, code)
    \/ \E n \in Procs : WaitTask(n)
    \/ \E n \in Procs : waitForOutput(n)

Engine ==
    \/ \E n \in Procs, ok \in BOOLEAN : runCmdWithPipes(n, ok)
    \/ Tasks

Loop ==
    \E msg \in BagToSet(inbox) :
        \/ UpdateStarted(msg)
        \/ UpdateOutput(msg)
        \/ UpdateFinished(msg)
        \/ UpdateBooted(msg)
        \/ UpdateDevicesLoaded(msg)
        \/ UpdateErr(msg)

World ==
    \/ \E ok \in BOOLEAN : bootDevice(ok)
    \/ \E w \in DeviceKinds \cup {"err"} : loadDevices(w)

Next == Keys \/ Engine \/ Loop \/ World

\* The host loop and the process engine.
Spec == Init /\ [][Next]_vars

\* The state once the device load of Init has found a booted device.
InitLoaded ==
    /\ processes = <<>>
    /\ nextProcessID = 1
    /\ outputChans = {}
    /\ devices = ListDevices("online")
    /\ eng = [n \in Procs |-> Engine0]
    /\ boots = 0
    /\ loads = 0
    /\ inbox = EmptyBag
    /\ crashed = FALSE
    /\ closureM = [processes |-> <<>>, devices |-> <<>>]
    /\ killReqs = {}
    /\ killResult = NoResult
    /\ ctx = CtxWired
    /\ mcp = MCP0
    /\ plug = Plugin0

\* The host from there on, with the bridge's kill requests (the RPC server's
\* kill_process tool) arriving at any moment.
Bridge == \E id \in IDs : BridgeKill(id)

NextBridge == Keys \/ Engine \/ Loop \/ Bridge

SpecBridge == InitLoaded /\ [][NextBridge]_vars

\* The host program with its devices loaded, and a plugin that calls the
\* bridge's intents.
BridgeIntents == \E c \in Intents : BridgeIntent(c[1], c[2])

NextIntent == Keys \/ Engine \/ Loop \/ BridgeIntents

SpecIntent == InitLoaded /\ [][NextIntent]_vars

\* The bridge from its construction on: nothing is wired yet, the host loop
\* has not started, and plugins already call the bridge.
InitCtx ==
    /\ processes = <<>>
    /\ nextProcessID = 1
    /\ outputChans = {}
    /\ devices = <<>>
    /\ eng = [n \in Procs |-> Engine0]
    /\ boots = 0
    /\ loads = 0
    /\ inbox = EmptyBag
    /\ crashed = FALSE
    /\ closureM = [processes |-> <<>>, devices |-> <<>>]
    /\ killReqs = {}
    /\ killResult = NoResult
    /\ ctx = Ctx0
    /\ mcp = MCP0
    /\ plug = Plugin0

Wiring == SetCallbacks \/ SetSettings \/ SetProject

BridgeCalls ==
    \/ \E c \in Getters : BridgeGet(c[1], c[2])
    \/ BridgeRefresh
    \/ \E c \in Intents : BridgeIntent(c[1], c[2])
    \/ BridgeKill(ProcID(1))
    \/ \E value \in ValueTypes : BridgeSetSetting("key", value)
    \/ BridgeSaveSettings

NextCtx == Wiring \/ BridgeCalls \/ Log

SpecCtx == InitCtx /\ [][NextCtx]_vars

\* The bridge, the handlers plugins subscribe to process-output, and the
\* host feeding process output to the bridge while other callers read it.
Emission ==
    \/ \E h \in Handlers : Subscribe(h)
    \/ AddProcessLog(ProcID(1))
    \/ \E h \in Handlers : EmitHandler(h)
    \/ AddProcessLogReturn

Readers == \E c \in Getters : BridgeGet(c[1], c[2])

NextEmit == Wiring \/ Emission \/ Readers

SpecEmit == InitCtx /\ [][NextEmit]_vars

\* The RPC server once runApp has started it (the bridge is wired, Start
\* has logged its message) and a client has connected.
InitMCP ==
    /\ processes = <<>>
    /\ nextProcessID = 1
    /\ outputChans = {}
    /\ devices = <<>>
    /\ eng = [n \in Procs |-> Engine0]
    /\ boots = 0
    /\ loads = 0
    /\ inbox = EmptyBag
    /\ crashed = FALSE
    /\ closureM = [processes |-> <<>>, devices |-> <<>>]
    /\ killReqs = {}
    /\ killResult = NoResult
    /\ ctx = [CtxWired EXCEPT !.logCalls = 1, !.logChan = <<PluginLogEntry(1)>>]
    /\ mcp = [MCP0 EXCEPT !.running = TRUE, !.conn = "open"]
    /\ plug = Plugin0

Connection ==
    \/ \E line \in RequestLines : Serve(line)
    \/ Disconnect
    \/ ObserveStop

NextMCP == Connection \/ Stop

SpecMCP == InitMCP /\ [][NextMCP]_vars

(***************************************************************************)
(* A long-running command, met in the middle of its run: process p1 has    *)
(* been started, its started message has been handled, and its log holds   *)
(* the command line and the output handled so far (the lines numbered 0    *)
(* and below).                                                             *)
(***************************************************************************)
OldLine(j, len) == OutLine(1, 1, j - len)
OldLog(len) == [j \in 1..len |-> IF j = 1 THEN Text("$ command") ELSE OldLine(j, len)]
OldBuf(len) == [j \in 1..len |-> OldLine(j, len)]

MidRun(p, e, chans, msgs) ==
    /\ processes = <<p>>
    /\ nextProcessID = 2
    /\ outputChans = chans
    /\ devices = ListDevices("online")
    /\ eng = [n \in Procs |-> IF n = 1 THEN e ELSE Engine0]
    /\ boots = 0
    /\ loads = 0
    /\ inbox = msgs
    /\ crashed = FALSE
    /\ closureM = [processes |-> <<>>, devices |-> <<>>]
    /\ killReqs = {}
    /\ killResult = NoResult
    /\ ctx = CtxWired
    /\ mcp = MCP0
    /\ plug = Plugin0

\* The log is at most LogSlack short of its capacity; a waitForOutput is armed.
InitLog ==
    \E len \in (LogCap - LogSlack)..LogCap :
        MidRun([Process(ProcID(1), ProcessRunning, OldLog(len)) EXCEPT !.Cmd = 1],
               [Spawned(Engine0) EXCEPT !.waiters = 1], {1}, EmptyBag)

\* The readers have run ahead of the loop: the started message is still in
\* the inbox and the queue is at most BurstSlack short of its capacity.
InitBurst ==
    \E len \in (ChanCap - BurstSlack)..ChanCap :
        MidRun(Process(ProcID(1), ProcessRunning, <<Text("$ command")>>),
               [Spawned(Engine0) EXCEPT !.buf = OldBuf(len)],
               {}, SetToBag({processStartedMsg(1)}))

\* The steps of a started command: the tasks of the engine, the loop
\* handling their messages, and the Kill key.
KillKey == \E i \in 0..Len(processes) : KeyKill(i)

NextRunning == Tasks \/ Loop \/ KillKey

SpecLog == InitLog /\ [][NextRunning]_vars

SpecBurst == InitBurst /\ [][NextRunning]_vars

\* NewDemoModel: the list is set to five mock processes with the IDs p1 to
\* p5, the first two Running and without a command, the others ended;
\* nextProcessID keeps the 1 of NewModelWithPlugins.
DemoIDs == 1..5
DemoProcesses ==
    [n \in DemoIDs |->
        IF n <= 2 THEN Process(ProcID(n), ProcessRunning, <<Text("demo")>>)
        ELSE [Process(ProcID(n), ProcessSuccess, <<Text("demo")>>) EXCEPT !.EndTime = Now]]

\* runDemoMode: the program starts on the demo model, whose first mock
\* device is the web target; Model.Init loads the devices as in runApp.
InitDemo ==
    /\ processes = DemoProcesses
    /\ nextProcessID = 1
    /\ outputChans = {}
    /\ devices = ListDevices("web")
    /\ eng = [n \in Procs |-> Engine0]
    /\ boots = 0
    /\ loads = 1
    /\ inbox = EmptyBag
    /\ crashed = FALSE
    /\ closureM = [processes |-> <<>>, devices |-> <<>>]
    /\ killReqs = {}
    /\ killResult = NoResult
    /\ ctx = CtxWired
    /\ mcp = MCP0
    /\ plug = Plugin0

SpecDemo == InitDemo /\ [][Next]_vars

(***************************************************************************)
(* Properties.                                                             *)
(***************************************************************************)
Range(f) == {f[j] : j \in DOMAIN f}
Last(f) == f[Len(f)]
Indices == 1..Len(processes)

\* The process created for command n, and whether the list has it.
ProcOf(n) == processes[FirstWithID(processes, ProcID(n))]
HasProc(n) == FirstWithID(processes, ProcID(n)) # 0

\* A step keeps every process at its place in the list, never changes a
\* status that is terminal, and adds created processes as Running.
StatusStep ==
    /\ Len(processes') >= Len(processes)
    /\ \A i \in Indices :
          /\ processes'[i].ID = processes[i].ID
          /\ processes[i].Status \in Terminal
                => processes'[i].Status = processes[i].Status
          /\ processes'[i].Status # processes[i].Status
                => processes'[i].Status \in Terminal
    /\ \A i \in (Len(processes) + 1)..Len(processes') :
          processes'[i].ID # SystemID => processes'[i].Status = ProcessRunning

C2_EndTimeIffTerminal ==
    \A i \in Indices :
        (processes[i].EndTime # ZeroTime) <=> (processes[i].Status \in Terminal)

LogBounded == \A i \in Indices : Len(processes[i].Logs) <= LogCap

\* A step that changes a full log drops its oldest entry and puts one entry last.
LogStep ==
    \A i \in Indices :
        LET old == processes[i].Logs
            new == processes'[i].Logs
        IN  (Len(old) = LogCap /\ new # old)
              => /\ Len(new) = LogCap
                 /\ SubSeq(new, 1, LogCap - 1) = Tail(old)
                 /\ Last(new) \notin Range(old)

\* C3: a log never holds more than LogCap entries, and a line added to a full
\* log removes the oldest entry, becomes the last one, and leaves the order
\* of the others as it was.
C3_LogKeepsNewest == []LogBounded /\ [][LogStep]_vars

\* C3's case: the log is full and the command line it started with is gone.
C3_OldestEvicted ==
    \E i \in Indices :
        /\ Len(processes[i].Logs) = LogCap
        /\ Text("$ command") \notin Range(processes[i].Logs)
        /\ Last(processes[i].Logs)[1] \in {"out", "Done", "Killed by user"}

LinesLeft(n) == eng[n].scanned[1] + eng[n].scanned[2] < MaxLines

\* The queue holds at most ChanCap lines, and a reader with a line to enqueue
\* can take its step whatever the queue holds.
QueueBounded ==
    \A n \in Procs :
        /\ Len(eng[n].buf) <= ChanCap
        /\ (~crashed /\ eng[n].run = "spawned" /\ LinesLeft(n))
              => \A s \in Streams : ENABLED Reader(n, s, "out")

\* A reader's step on an open queue: the line is dropped and the queue is
\* unchanged if it is full, the line is the last of the queue otherwise; the
\* reader has moved on to its next line either way.
EnqueueStep ==
    \A n \in Procs, s \in Streams :
        (eng'[n].scanned[s] # eng[n].scanned[s] /\ ~eng[n].closed)
          => /\ eng'[n].scanned[s] = eng[n].scanned[s] + 1
             /\ ~crashed'
             /\ eng'[n].buf = IF Len(eng[n].buf) = ChanCap THEN eng[n].buf
                               ELSE Append(eng[n].buf, OutLine(n, s, eng'[n].scanned[s]))

\* C4: a reader's enqueue never blocks: on a full queue (ChanCap lines) the
\* line is dropped and the queue is unchanged, the queue never holds more
\* than ChanCap lines, and the reader goes on to its next line.
C4_EnqueueNeverBlocks == []QueueBounded /\ [][EnqueueStep]_vars

\* C4's case: a reader has taken its first line while the queue was full of
\* older lines and the loop had not yet received any: the line is nowhere.
C4_LineDropped ==
    \E n \in Procs, s \in Streams :
        /\ eng[n].scanned[s] = 1
        /\ Len(eng[n].buf) = ChanCap
        /\ OutLine(n, s, 1) \notin Range(eng[n].buf)
        /\ eng[n].waiters = 0
        /\ processStartedMsg(n) \in BagToSet(inbox)

\* Nothing is in progress: every command has exited, its queue is closed and
\* drained, no subscription is blocked, no boot or device load is under way
\* and the loop has handled every message.
Quiescent ==
    /\ ~crashed
    /\ inbox = EmptyBag
    /\ boots = 0
    /\ loads = 0
    /\ \A n \in Procs :
          \/ eng[n].run \in {"idle", "failed"}
          \/ /\ eng[n].run = "spawned"
             /\ eng[n].closed
             /\ eng[n].buf = <<>>
             /\ eng[n].waiters = 0

StartedCmds == {n \in Procs : eng[n].run = "spawned"}

\* The output lines of a log are lines of the process's own command, none
\* twice, those of one pipe in the order its reader took them.
OwnOutputInOrder(p) ==
    \A j \in 1..Len(p.Logs) :
        p.Logs[j][1] = "out"
          => /\ p.ID = ProcID(p.Logs[j][2])
             /\ \A k \in (j + 1)..Len(p.Logs) :
                   /\ p.Logs[k] # p.Logs[j]
                   /\ (p.Logs[k][1] = "out" /\ p.Logs[k][3] = p.Logs[j][3])
                         => p.Logs[k][4] > p.Logs[j][4]

C6_NonzeroExitFails ==
    \A n \in Procs :
        (/\ HasProc(n)
         /\ eng[n].os = "exit1"
         /\ ProcID(n) \notin killReqs
         /\ ProcOf(n).Status \in Terminal)
          => /\ ProcOf(n).Status = ProcessFailed
             /\ Last(ProcOf(n).Logs) = Text("Error: command")

\* C7: a command that could not be spawned has its queue closed, no reader or
\* wait task (nothing is read, no command exists), no started message and no
\* subscription; its process never gets a command or a registered queue, is
\* Running until the finished message is handled, and from then on is Failed
\* with the error in its log.
C7_SpawnFailureFails ==
    \A n \in Procs :
        eng[n].run = "failed"
          => /\ eng[n].closed
             /\ eng[n].os = "none"
             /\ eng[n].scanned = <<0, 0>>
             /\ eng[n].buf = <<>>
             /\ eng[n].waiters = 0
             /\ n \notin outputChans
             /\ \A msg \in BagToSet(inbox) :
                   msg.n = n => msg = processFinishedMsg(n, TRUE)
             /\ HasProc(n)
             /\ ProcOf(n).Cmd = 0
             /\ IF processFinishedMsg(n, TRUE) \in BagToSet(inbox)
                THEN ProcOf(n).Status = ProcessRunning
                ELSE /\ ProcOf(n).Status = ProcessFailed
                     /\ ProcOf(n).EndTime = Now
                     /\ Text("Error: command") \in Range(ProcOf(n).Logs)

\* C7's case: the spawn failed and the finished message has been handled.
C7_SpawnFailed ==
    \E n \in Procs :
        /\ eng[n].run = "failed"
        /\ HasProc(n)
        /\ ProcOf(n).Status = ProcessFailed

\* C8: a process for which a kill was requested while it was running (by the
\* Kill key or through the bridge) never becomes Succeeded or Failed, and is
\* Cancelled once nothing is in progress.
C8_KilledEndsCancelled ==
    \A i \in Indices :
        processes[i].ID \in killReqs
          => /\ processes[i].Status \notin {ProcessSuccess, ProcessFailed}
             /\ Quiescent => processes[i].Status = ProcessCancelled

\* The process with the ID is not running: there is none, or it is terminal,
\* or its command has not been spawned yet.
NotRunning(id) ==
    \A i \in Indices :
        processes[i].ID = id
          => (processes[i].Status # ProcessRunning \/ processes[i].Cmd = 0)

\* A kill request for a process that is not running changes no process and
\* signals no command, and the bridge returns an error for it; a command is
\* signalled only while its process is Running.
RefusedKillStep ==
    /\ \A id \in IDs :
          (BridgeKill(id) /\ NotRunning(id))
            => /\ killResult' = <<id, "error">>
               /\ UNCHANGED <<processes, eng>>
    /\ \A i \in 0..Len(processes) :
          (KeyKill(i) /\ (i = 0 \/ NotRunning(processes[i].ID)))
            => UNCHANGED <<processes, eng>>
    /\ \A n \in Procs :
          (eng'[n].os = "killed" /\ eng[n].os # "killed")
            => HasProc(n) /\ ProcOf(n).Status = ProcessRunning

C10_EveryProcessEnds ==
    Quiescent
      => \A i \in Indices :
            processes[i].ID # SystemID => processes[i].Status \in Terminal

\* C11: the bridge's GetDevices, GetProcesses and GetProcessLogs return the
\* host loop's current device list, process list (every process with its
\* current status) and logs.
C11_BridgeReadsCurrentState ==
    /\ GetDevices = devices
    /\ GetProcesses = [i \in Indices |-> ProcessInfo(processes[i])]
    /\ \A id \in IDs :
          GetProcessLogs(id) = IF FirstWithID(processes, id) = 0 THEN <<>>
                               ELSE processes[FirstWithID(processes, id)].Logs

\* A bridge intent that returns success has appended one Running process.
IntentStep ==
    \A c \in Intents :
        (BridgeIntent(c[1], c[2]) /\ killResult' = <<c[1], c[2], "ok">>)
          => /\ Len(processes') = Len(processes) + 1
             /\ Last(processes').Status = ProcessRunning
             /\ Last(processes').ID = ProcID(nextProcessID)

\* C12: a run_on_device, run_web, sync, build or open_ide request that returns
\* success through the bridge has created a new Running process, as the
\* interactive intent does.
C12_BridgeIntentCreatesProcess == [][IntentStep]_vars

\* The operations backed by a host callback, and those backed by the
\* settings store.
CallbackOps == {"get_devices", "get_selected_device", "refresh_devices",
                "run_on_device", "run_web", "sync", "build", "open_ide",
                "get_processes", "get_process_logs"}
SettingsOps == {"set_setting", "save_settings"}

\* C13: a bridge operation backed by a host callback or by the settings
\* store, invoked before SetCallbacks or SetSettings, returns an
\* 'unavailable' error.
C13_UnwiredIsUnavailable ==
    /\ (Len(killResult) >= 3 /\ killResult[1] \in CallbackOps /\ ~ctx.callbacks)
          => killResult[3] = "unavailable"
    /\ (Len(killResult) = 2 /\ ~ctx.callbacks) => killResult[2] = "unavailable"
    /\ (Len(killResult) >= 3 /\ killResult[1] \in SettingsOps /\ ctx.settings = "nil")
          => killResult[3] = "unavailable"

\* The log channel holds at most LogChanCap entries, and Log can take its
\* step whatever the channel holds.
LogChanBounded ==
    /\ Len(ctx.logChan) <= LogChanCap
    /\ ctx.logCalls < MaxLogCalls => ENABLED Log

\* A call of Log: the entry is dropped and the channel unchanged if it holds
\* LogChanCap entries, the entry is the last of the channel otherwise.
LogCallStep ==
    ctx'.logCalls # ctx.logCalls
      => ctx'.logChan = IF Len(ctx.logChan) = LogChanCap THEN ctx.logChan
                        ELSE Append(ctx.logChan, PluginLogEntry(ctx'.logCalls))

\* C14: the bridge's Log never blocks: when the channel holds 100 entries the
\* new entry is dropped and the channel is unchanged, otherwise the entry is
\* appended last, and the channel never holds more than 100 entries although
\* nothing consumes it.
C14_LogNeverBlocks == []LogChanBounded /\ [][LogCallStep]_vars

\* C14's case: the channel is full and a later call's entry is not in it.
C14_EntryDropped ==
    /\ Len(ctx.logChan) = LogChanCap
    /\ ctx.logCalls > LogChanCap
    /\ PluginLogEntry(ctx.logCalls) \notin Range(ctx.logChan)
    /\ Last(ctx.logChan) = PluginLogEntry(LogChanCap)

\* C15: no bridge operation calls into the event bus or a host callback
\* while it holds the bridge's lock, and a process-output handler that calls
\* GetProject or GetDevices during AddProcessLog's emission does not
\* deadlock.
C15_NoCallUnderLock ==
    /\ ctx.pc = "emit" => Unlocked
    /\ ctx.pc # "blocked"

\* The line does not parse as a JSON request.
Unparseable(line) == line.kind \in {"garbage", "mistyped"}

\* The step that answers an unparseable line writes one response, the parse
\* error with the nil ID and no result, invokes nothing on the bridge and
\* leaves the connection open.
ParseErrorStep ==
    (mcp'.handled # mcp.handled /\ Unparseable(mcp'.line))
      => /\ mcp'.handled = mcp.handled + 1
         /\ mcp'.resp = [ID |-> NilID, Result |-> NoPayload, Error |-> CodeParseError]
         /\ mcp'.calls = <<>>
         /\ mcp'.conn = "open"

\* After the answer to an unparseable line the running server takes the
\* connection's next line, whatever it is.
NextLineServed ==
    (/\ mcp.handled > 0
     /\ mcp.handled < MaxRequests
     /\ mcp.conn = "open"
     /\ ~mcp.stopped)
      => (Unparseable(mcp.line) => \A line \in RequestLines : ENABLED Serve(line))

\* C16: a request line that cannot be parsed as a JSON request yields exactly
\* one parse-error response (code -32700) with no correlation ID, and the
\* connection stays open: its next line is read and answered.
C16_ParseErrorKeepsConnection == []NextLineServed /\ [][ParseErrorStep]_vars

\* C16's case: a request has been answered with its result on a connection
\* whose previous line was answered with the parse error.
C16_AnsweredAfterParseError ==
    /\ mcp.handled = 2
    /\ mcp.conn = "open"
    /\ ~Unparseable(mcp.line)
    /\ mcp.resp.Error = 0
    /\ \E e \in mcp.memo : Unparseable(e.line) /\ e.resp.Error = CodeParseError

\* The last line answered is a parsed request whose method is none of the
\* three, or a tools/call that names a tool outside the catalog.
UnknownMethod ==
    /\ mcp.handled > 0
    /\ mcp.line.kind = "request"
    /\ mcp.line.req.Method \notin {"initialize", "tools/list", "tools/call"}

UnknownToolCalled ==
    /\ mcp.handled > 0
    /\ mcp.line.kind = "request"
    /\ mcp.line.req.Method = "tools/call"
    /\ mcp.line.req.Params.kind = "call"
    /\ mcp.line.req.Params.call.name \notin Range(ToolNames)

\* C17: a parsed request whose method is not initialize, tools/list or
\* tools/call, and a tools/call whose tool is not in the catalog, are each
\* answered with the method-not-found error (code -32601) and invoke no
\* bridge operation.
C17_UnknownIsMethodNotFound ==
    (UnknownMethod \/ UnknownToolCalled)
      => /\ mcp.resp.Error = CodeMethodNotFound
         /\ mcp.resp.Result = NoPayload
         /\ mcp.calls = <<>>

\* C17's case: a call of a tool outside the catalog has been refused.
C17_UnknownToolRefused ==
    /\ UnknownToolCalled
    /\ mcp.line.req.Params.call.name = "bogus"
    /\ mcp.resp.Error = CodeMethodNotFound

\* The last request was a tools/call whose bridge operation returned an
\* error, or a result that reports failure.
BridgeFailed ==
    LET args == mcp.line.req.Params.call.args IN
    /\ mcp.handled > 0
    /\ CASE mcp.calls = <<"RunOnDevice">> -> RunOnDevice(args.deviceId) # "ok"
         [] mcp.calls = <<"RunWeb">> -> RunWeb # "ok"
         [] mcp.calls = <<"Sync">> -> Sync(args.platform) # "ok"
         [] mcp.calls = <<"Build">> -> Build # "ok"
         [] mcp.calls = <<"OpenIDE">> -> OpenIDE(args.platform) # "ok"
         [] mcp.calls = <<"KillProcess">> -> KillProcessResult(args.processId) # "ok"
         [] mcp.calls = <<"SetSetting">> -> SetSetting(args.key, args.value) # "ok"
         [] mcp.calls = <<"RunDebugAction">> -> ~RunDebugAction(args.actionId).Success
         [] mcp.calls = <<"GetProject">> -> ~ctx.project
         [] OTHER -> FALSE

\* The step that answers such a request writes the application error with
\* no result and leaves the connection open.
BridgeFailureStep ==
    (mcp'.handled # mcp.handled /\ BridgeFailed')
      => /\ mcp'.resp.Error = CodeAppError
         /\ mcp'.resp.Result = NoPayload
         /\ mcp'.conn = "open"

\* C18: whenever a bridge operation invoked by tools/call fails or reports
\* failure (run_debug_action with a result whose success is false included),
\* the response carries the application error (code -32000) and no result,
\* and the connection is not closed.
C18_BridgeFailureIsAppError == [][BridgeFailureStep]_vars

\* The last request was a tools/call with no params payload, or one that
\* names a tool of the catalog and lacks a parameter its schema requires
\* (no arguments map lacks them all).
MissingRequired ==
    LET params == mcp.line.req.Params IN
    /\ mcp.handled > 0
    /\ mcp.line.kind = "request"
    /\ mcp.line.req.Method = "tools/call"
    /\ \/ params.kind = "absent"
       \/ /\ params.kind = "call"
          /\ params.call.name \in Range(ToolNames)
          /\ ~(Required(params.call.name) \subseteq Given(params.call.args))

\* C19: a tools/call that lacks a parameter the tool's schema declares as
\* required (the arguments map or the params payload may be absent
\* altogether) is answered with the invalid-params error (code -32602) and
\* invokes no bridge operation.
C19_MissingParamIsInvalidParams ==
    MissingRequired
      => /\ mcp.resp.Error = CodeInvalidParams
         /\ mcp.resp.Result = NoPayload
         /\ mcp.calls = <<>>

\* The last line answered is a tools/list request.
ListRequested ==
    /\ mcp.handled > 0
    /\ mcp.line.kind = "request"
    /\ mcp.line.req.Method = "tools/list"

\* Its answer is the catalog of 15 different tools, and no error.
FullCatalog ==
    /\ mcp.resp.Error = 0
    /\ mcp.resp.Result.kind = "tools"
    /\ Len(mcp.resp.Result.tools) = 15
    /\ Cardinality({mcp.resp.Result.tools[i].Name :
                       i \in 1..Len(mcp.resp.Result.tools)}) = 15

\* Two answers to the same line given in the same bridge state are the same
\* answer, whatever was handled in between.
SameAnswer ==
    \A e1, e2 \in mcp.memo :
        (e1.line = e2.line /\ e1.at = e2.at) => e1.resp = e2.resp

\* C20: request handling is stateless: the response depends on the request
\* and on the bridge's state only, not on the requests handled before, and
\* tools/list returns the full 15-tool catalog whether or not initialize was
\* called first.
C20_HandlingIsStateless ==
    /\ SameAnswer
    /\ ListRequested => FullCatalog

\* C20's case: tools/list has been answered with the catalog, after other
\* requests, on a server that has never answered an initialize request.
C20_ListBeforeInitialize ==
    /\ ListRequested
    /\ FullCatalog
    /\ ~mcp.initialized
    /\ mcp.handled = 3
    /\ Cardinality(mcp.memo) = 3


(***************************************************************************)
(* The plugin lifecycle: one registered instance (the RPC server or the    *)
(* emulator supervisor), the main task that initializes it, runs the UI    *)
(* loop and shuts down, the signal task, and the instance's background     *)
(* tasks.                                                                  *)
(***************************************************************************)
MaxStarts == 2
MaxConns == 1
MaxOutput == 1

Callers == {"main", "sig"}

\* p.ctx has been set by Init.
CtxSet(p) == p.inits > 0

\* The channel p.stopCh refers to now is closed.
StopChClosed(p) == p.closes[p.stopCh] > 0

\* A call returns r to caller c.
Return(p, c, r) ==
    [p EXCEPT !.call[c] = [NoCallOp EXCEPT !.of = p.call[c].op, !.ret = r,
                                           !.again = p.call[c].again],
              !.stoppedAll = @ \/ (p.call[c].op = "StopAll" /\ p.call[c].gen = p.starts)]

\* Caller c calls op.
Call(p, c, op) ==
    [p EXCEPT !.call[c] = [NoCallOp EXCEPT !.op = op,
                                           !.pc = IF op = "StopAll" THEN "check" ELSE "lock",
                                           !.gen = IF op = "StopAll" THEN p.starts ELSE 0,
                                           !.again = op = "StopAll" /\ p.stoppedAll]]

\* A background task: its kind (accept, conn, stdio, reader, waiter,
\* reaper), the stop channel of the run that started it, its listener or
\* command, whether it still runs, whether it went on after its run was
\* stopped, and the lines it has handled.
Task(p, kind, run, res) ==
    [id |-> Cardinality(p.tasks) + 1, kind |-> kind, run |-> run, res |-> res,
     live |-> TRUE, late |-> FALSE, lines |-> 0]

\* The tasks of p with task t replaced by u.
Swap(p, t, u) == [p EXCEPT !.tasks = (@ \ {t}) \cup {u}]

\* The steps of the program stop at a panic and at the end of the process.
Alive == plug.fault = "none" /\ plug.main # "Exit"

LifeUnchanged ==
    /\ killResult' = NoResult
    /\ UNCHANGED hostVars
    /\ UNCHANGED mcp

\* MCPPlugin.Init and FirebasePlugin.Init: p.ctx is set; the RPC server
\* loads its mode from the settings, the supervisor looks for firebase.json.
PluginInit(p, mode, config) ==
    [p EXCEPT !.inits = @ + 1,
              !.mode = IF p.variant = "mcp" THEN mode ELSE @,
              !.config = p.variant = "firebase" /\ config]

\* Start under p.mu: nothing to do when running; the supervisor needs a
\* firebase.json; else running is set and a new stop channel is made.
StartSection(p, c) ==
    IF p.running THEN Return(p, c, "nil")
    ELSE IF p.variant = "firebase" /\ ~p.config THEN Return(p, c, "err")
    ELSE [p EXCEPT !.running = TRUE,
                   !.stopCh = Len(p.closes) + 1,
                   !.closes = Append(@, 0),
                   !.starts = @ + 1,
                   !.stoppedAll = FALSE,
                   !.call[c].pc = "serve",
                   !.call[c].gen = Len(p.closes) + 1]

StartLocked(c) ==
    /\ Alive
    /\ plug.call[c].op = "Start"
    /\ plug.call[c].pc = "lock"
    /\ plug' = StartSection(plug, c)
    /\ UNCHANGED ctx
    /\ LifeUnchanged

\* net.Listen fails while a listener of the program holds the port.
PortHeld(p) == \E i \in 1..Len(p.made) : p.made[i].open

\* Start after the unlock.  The RPC server in stdio mode starts runStdio;
\* in TCP mode startTCP binds the listener, stores it and starts the accept
\* loop, or fails.  The supervisor's startEmulators starts the command, its
\* two readers and the task that waits for it, or fails.
StartServe(c, ok) ==
    /\ Alive
    /\ plug.call[c].op = "Start"
    /\ plug.call[c].pc = "serve"
    /\ LET p == plug
           gen == p.call[c].gen
           new == Len(p.made) + 1
           q == [p EXCEPT !.made = Append(@, [open |-> TRUE, closes |-> 0]),
                          !.res = new]
       IN  plug' =
             IF p.variant = "mcp" /\ p.mode = "stdio"
             THEN [p EXCEPT !.tasks = @ \cup {Task(p, "stdio", gen, 0)},
                            !.call[c].pc = "log"]
             ELSE IF ~ok \/ (p.variant = "mcp" /\ PortHeld(p))
             THEN [p EXCEPT !.call[c].pc = "fail"]
             ELSE IF p.variant = "mcp"
             THEN [q EXCEPT !.tasks = @ \cup {Task(p, "accept", gen, new)},
                            !.call[c].pc = "log"]
             ELSE [q EXCEPT !.tasks = @ \cup
                               {[Task(p, "reader", gen, new) EXCEPT !.id = @ + i] :
                                   i \in 0..1}
                               \cup {[Task(p, "waiter", gen, new) EXCEPT !.id = @ + 2]},
                            !.call[c].pc = "log"]
    /\ UNCHANGED ctx
    /\ LifeUnchanged

\* Start after startTCP or startEmulators has failed: running is reset
\* under p.mu and the error is returned.
StartFailed(c) ==
    /\ Alive
    /\ plug.call[c].op = "Start"
    /\ plug.call[c].pc = "fail"
    /\ plug' = Return([plug EXCEPT !.running = FALSE], c, "err")
    /\ UNCHANGED ctx
    /\ LifeUnchanged

\* p.ctx.Log at the end of Start and of Stop: a method call on a nil
\* interface panics.
PluginLog(c) ==
    /\ Alive
    /\ plug.call[c].pc = "log"
    /\ IF CtxSet(plug)
       THEN /\ plug' = Return(plug, c, "nil")
            /\ ctx' = [ctx EXCEPT !.logCalls = @ + 1,
                                  !.logChan = LogSend(@, PluginLogEntry(ctx.logCalls + 1))]
       ELSE /\ plug' = [plug EXCEPT !.fault = "nil ctx"]
            /\ UNCHANGED ctx
    /\ LifeUnchanged

\* A Stop that closes a channel and a resource whether or not the plugin
\* is running.
StopSectionUnguarded(p) ==
    LET held == p.res # 0
    IN  [p EXCEPT !.running = FALSE,
                  !.closes[p.stopCh] = @ + 1,
                  !.fault = IF StopChClosed(p) THEN "close of closed channel" ELSE @,
                  !.made = IF held
                           THEN [@ EXCEPT ![p.res] = [open |-> @.open /\ p.variant # "mcp",
                                                      closes |-> @.closes + 1]]
                           ELSE @,
                  !.res = IF p.variant = "mcp" THEN 0 ELSE @,
                  !.tasks = IF held /\ p.variant = "firebase"
                            THEN @ \cup {Task(p, "reaper", p.stopCh, p.res)} ELSE @]

\* Stop under p.mu: nothing when not running; else running is reset and
\* the stop channel closed; the RPC server closes and forgets its
\* listener, the supervisor interrupts its command and starts a task that
\* waits for it.
StopSection(p) ==
    IF ~p.running THEN p
    ELSE LET held == p.res # 0
         IN  [p EXCEPT !.running = FALSE,
                       !.closes[p.stopCh] = @ + 1,
                       !.fault = IF StopChClosed(p) THEN "close of closed channel" ELSE @,
                       !.made = IF held
                                THEN [@ EXCEPT ![p.res] =
                                         [open |-> @.open /\ p.variant # "mcp",
                                          closes |-> @.closes + 1]]
                                ELSE @,
                       !.res = IF p.variant = "mcp" THEN 0 ELSE @,
                       !.tasks = IF held /\ p.variant = "firebase"
                                 THEN @ \cup {Task(p, "reaper", p.stopCh, p.res)} ELSE @]

\* A Stop that leaves p.running set.
StopLockedKeepsRunning(c) ==
    /\ Alive
    /\ plug.call[c].op \in {"Stop", "StopAll"}
    /\ plug.call[c].pc = "lock"
    /\ plug' = IF plug.running
               THEN [StopSection(plug) EXCEPT !.running = TRUE, !.call[c].pc = "log"]
               ELSE Return(StopSection(plug), c, "nil")
    /\ UNCHANGED ctx
    /\ LifeUnchanged

\* Stop: the locked part, then the log line if the plugin was running.
StopLocked(c) ==
    /\ Alive
    /\ plug.call[c].op \in {"Stop", "StopAll"}
    /\ plug.call[c].pc = "lock"
    /\ plug' = IF plug.running
               THEN [StopSection(plug) EXCEPT !.call[c].pc = "log"]
               ELSE Return(StopSection(plug), c, "nil")
    /\ UNCHANGED ctx
    /\ LifeUnchanged

\* Manager.StopAll: Stop is called on every plugin that reports running.
StopAll(c) ==
    /\ Alive
    /\ plug.call[c].op = "StopAll"
    /\ plug.call[c].pc = "check"
    /\ plug' = IF plug.running THEN [plug EXCEPT !.call[c].pc = "lock"]
               ELSE Return(plug, c, "nil")
    /\ UNCHANGED ctx
    /\ LifeUnchanged

\* acceptConnections: Accept returns a connection and handleConnection is
\* started for it.
AcceptConn(t) ==
    /\ Alive
    /\ t \in plug.tasks /\ t.kind = "accept" /\ t.live
    /\ plug.made[t.res].open
    /\ Cardinality({u \in plug.tasks : u.kind = "conn"}) < MaxConns
    /\ plug' = [plug EXCEPT !.tasks = @ \cup {Task(plug, "conn", t.run, t.res)}]
    /\ UNCHANGED ctx
    /\ LifeUnchanged

\* acceptConnections: Accept fails on the closed listener; the loop returns
\* if the channel p.stopCh refers to now is closed and tries again if not.
AcceptError(t) ==
    /\ Alive
    /\ t \in plug.tasks /\ t.kind = "accept" /\ t.live
    /\ ~plug.made[t.res].open
    /\ plug' = Swap(plug, t, IF StopChClosed(plug) THEN [t EXCEPT !.live = FALSE]
                             ELSE [t EXCEPT !.late = TRUE])
    /\ UNCHANGED ctx
    /\ LifeUnchanged

\* handleConnection and runStdio: Scan returns a line; the task returns if
\* the channel p.stopCh refers to now is closed, and answers the line if not.
ServeLine(t) ==
    /\ Alive
    /\ t \in plug.tasks /\ t.kind \in {"conn", "stdio"} /\ t.live
    /\ plug' = Swap(plug, t, IF StopChClosed(plug) THEN [t EXCEPT !.live = FALSE]
                             ELSE [t EXCEPT !.late = plug.closes[t.run] > 0,
                                            !.lines = 1])
    /\ UNCHANGED ctx
    /\ LifeUnchanged

\* handleConnection and runStdio: Scan returns false.
EndOfInput(t) ==
    /\ Alive
    /\ t \in plug.tasks /\ t.kind \in {"conn", "stdio"} /\ t.live
    /\ plug' = Swap(plug, t, [t EXCEPT !.live = FALSE])
    /\ UNCHANGED ctx
    /\ LifeUnchanged

\* parseEmulatorStatus: under p.mu, the flag of a service is set when the
\* line names the service and contains "Emulator".
parseEmulatorStatus(p, names) == [p EXCEPT !.emulators = @ \/ names]

\* The services of firebase.json: one is configured, one is not.
Services == {"firestore", "auth"}

\* GetEmulatorURL: the URL of the configured service while its flag is
\* set, the empty string otherwise.
GetEmulatorURL(p, name) ==
    IF name = "firestore" /\ p.emulators THEN "http://localhost:8080" ELSE ""

\* readOutput: Scan returns a line of the command's output (also one the
\* command wrote before it exited); the task returns if the channel p.stopCh
\* refers to now is closed, and parses and logs the line if not.  After the
\* last line of a command that has exited the next Scan returns false.
readOutput(t) ==
    /\ Alive
    /\ t \in plug.tasks /\ t.kind = "reader" /\ t.live
    /\ t.lines < MaxOutput
    /\ IF StopChClosed(plug)
       THEN /\ plug' = Swap(plug, t, [t EXCEPT !.live = FALSE])
            /\ UNCHANGED ctx
       ELSE /\ \E names \in BOOLEAN :
                 plug' = Swap(parseEmulatorStatus(plug, names), t,
                              [t EXCEPT !.lines = @ + 1,
                                        !.late = plug.closes[t.run] > 0,
                                        !.live = plug.made[t.res].open
                                                   \/ t.lines + 1 < MaxOutput])
            /\ ctx' = [ctx EXCEPT !.logCalls = @ + 1,
                                  !.logChan = LogSend(@, PluginLogEntry(ctx.logCalls + 1))]
    /\ LifeUnchanged

\* The emulator command exits, interrupted or on its own; its pipes end
\* for the readers that have taken every line it wrote.
CommandExits ==
    /\ Alive
    /\ plug.variant = "firebase"
    /\ \E i \in 1..Len(plug.made) :
         /\ plug.made[i].open
         /\ plug' = [plug EXCEPT !.made[i].open = FALSE,
                                 !.tasks = {IF u.kind = "reader" /\ u.res = i
                                               /\ u.lines >= MaxOutput
                                            THEN [u EXCEPT !.live = FALSE] ELSE u : u \in @}]
    /\ UNCHANGED ctx
    /\ LifeUnchanged

\* startEmulators' last task: cmd.Wait returns; running, p.cmd and the
\* flags of the services are reset under p.mu.
Waiter(t) ==
    /\ Alive
    /\ t \in plug.tasks /\ t.kind = "waiter" /\ t.live
    /\ ~plug.made[t.res].open
    /\ plug' = Swap([plug EXCEPT !.running = FALSE, !.res = 0, !.emulators = FALSE], t,
                    [t EXCEPT !.live = FALSE])
    /\ UNCHANGED ctx
    /\ LifeUnchanged

\* The task Stop starts: p.cmd.Wait(), with p.cmd read outside the lock; a
\* nil p.cmd is a nil-pointer dereference.
Reaper(t) ==
    /\ Alive
    /\ t \in plug.tasks /\ t.kind = "reaper" /\ t.live
    /\ plug' = IF plug.res = 0 THEN [plug EXCEPT !.fault = "nil cmd"]
               ELSE Swap(plug, t, [t EXCEPT !.live = FALSE])
    /\ UNCHANGED ctx
    /\ LifeUnchanged

\* The main task is between two calls.
MainIdle == plug.call["main"].op = "none"

\* runApp: pluginManager.InitAll(appContext).
InitAll ==
    /\ Alive
    /\ plug.main = "InitAll"
    /\ \E mode \in {"tcp", "stdio"}, config \in BOOLEAN :
         plug' = [PluginInit(plug, mode, config) EXCEPT !.main = "AutoStart"]
    /\ UNCHANGED ctx
    /\ LifeUnchanged

\* runApp: pluginManager.StartAutoStart() starts the plugin if its auto
\* start setting is set; then the UI loop runs.
StartAutoStart ==
    /\ Alive
    /\ plug.main = "AutoStart"
    /\ \E auto \in BOOLEAN :
         plug' = [(IF auto THEN Call(plug, "main", "Start") ELSE plug)
                    EXCEPT !.main = "Run"]
    /\ UNCHANGED ctx
    /\ LifeUnchanged

\* handlePluginsInput, "enter": Stop if the plugin reports running, Start
\* if not.
TogglePlugin ==
    /\ Alive
    /\ plug.main = "Run"
    /\ MainIdle
    /\ plug.running \/ plug.starts < MaxStarts
    /\ plug' = Call(plug, "main", IF plug.running THEN "Stop" ELSE "Start")
    /\ UNCHANGED ctx
    /\ LifeUnchanged

\* The quit keys: gracefulShutdown calls StopAll, then tea.Quit.
gracefulShutdown ==
    /\ Alive
    /\ plug.main = "Run"
    /\ MainIdle
    /\ plug' = [Call(plug, "main", "StopAll") EXCEPT !.main = "Quit"]
    /\ UNCHANGED ctx
    /\ LifeUnchanged

\* p.Run returns: runApp calls StopAll once more, runDemoMode returns.
RunReturns ==
    /\ Alive
    /\ plug.main = "Quit"
    /\ MainIdle
    /\ plug' = IF plug.path = "app"
               THEN [Call(plug, "main", "StopAll") EXCEPT !.main = "Final"]
               ELSE [plug EXCEPT !.main = "Exit"]
    /\ UNCHANGED ctx
    /\ LifeUnchanged

\* runApp returns.
Exit ==
    /\ Alive
    /\ plug.main = "Final"
    /\ MainIdle
    /\ plug' = [plug EXCEPT !.main = "Exit"]
    /\ UNCHANGED ctx
    /\ LifeUnchanged

\* runApp's signal task: a signal arrives and StopAll is called.
Signal ==
    /\ Alive
    /\ plug.sig = "wait"
    /\ plug' = [Call(plug, "sig", "StopAll") EXCEPT !.sig = "StopAll"]
    /\ UNCHANGED ctx
    /\ LifeUnchanged

\* runApp's signal task: os.Exit(0) after StopAll.
SignalExit ==
    /\ Alive
    /\ plug.sig = "StopAll"
    /\ plug.call["sig"].op = "none"
    /\ plug' = [plug EXCEPT !.sig = "done", !.main = "Exit"]
    /\ UNCHANGED ctx
    /\ LifeUnchanged

\* main: runApp, or runDemoMode with no InitAll, no StartAutoStart and no
\* signal task; the registered plugin is either of the two.
InitLife ==
    /\ processes = <<>>
    /\ nextProcessID = 1
    /\ outputChans = {}
    /\ devices = <<>>
    /\ eng = [n \in Procs |-> Engine0]
    /\ boots = 0
    /\ loads = 0
    /\ inbox = EmptyBag
    /\ crashed = FALSE
    /\ closureM = [processes |-> <<>>, devices |-> <<>>]
    /\ killReqs = {}
    /\ killResult = NoResult
    /\ ctx = CtxWired
    /\ mcp = MCP0
    /\ \E variant \in {"mcp", "firebase"}, path \in {"app", "demo"} :
         plug = [Plugin0 EXCEPT !.variant = variant,
                                !.path = path,
                                !.main = IF path = "app" THEN "InitAll" ELSE "Run",
                                !.sig = IF path = "app" THEN "wait" ELSE "none"]

PluginCalls ==
    \/ \E c \in Callers : StartLocked(c)
    \/ \E c \in Callers, ok \in BOOLEAN : StartServe(c, ok)
    \/ \E c \in Callers : StartFailed(c)
    \/ \E c \in Callers : PluginLog(c)
    \/ \E c \in Callers : StopLocked(c)
    \/ \E c \in Callers : StopAll(c)

Background ==
    \/ \E t \in plug.tasks : AcceptConn(t)
    \/ \E t \in plug.tasks : AcceptError(t)
    \/ \E t \in plug.tasks : ServeLine(t)
    \/ \E t \in plug.tasks : EndOfInput(t)
    \/ \E t \in plug.tasks : readOutput(t)
    \/ \E t \in plug.tasks : Waiter(t)
    \/ \E t \in plug.tasks : Reaper(t)
    \/ CommandExits

Program ==
    \/ InitAll
    \/ StartAutoStart
    \/ TogglePlugin
    \/ gracefulShutdown
    \/ RunReturns
    \/ Exit
    \/ Signal
    \/ SignalExit

NextLife == PluginCalls \/ Background \/ Program

SpecLife == InitLife /\ [][NextLife]_vars

(***************************************************************************)
(* The event bus behind AppContext.Subscribe and AppContext.Emit: an       *)
(* ordered list of handlers per event type; Emit iterates over a copy of   *)
(* the list taken under the bus's lock.                                    *)
(***************************************************************************)
MaxHandlers == 3
MaxEmits == 2

HandlerIDs == 1..MaxHandlers

\* The elements of a sequence.
Elems(q) == {q[i] : i \in 1..Len(q)}

\* The sequence without its elements equal to x.
Without(q, x) == SelectSeq(q, LAMBDA y : y # x)

BusUnchanged ==
    /\ killResult' = NoResult
    /\ UNCHANGED hostVars
    /\ UNCHANGED <<mcp, plug>>

\* AppContext.Subscribe: the handler is appended to the list.  It may be
\* called by any task, and by a handler while an Emit invokes it.
BusSubscribe(h) ==
    /\ h \notin Elems(ctx.bus.subs)
    /\ ctx' = [ctx EXCEPT !.bus.subs = Append(@, h)]
    /\ BusUnchanged

\* The function Subscribe returned: exactly that subscription is removed.
BusUnsubscribe(h) ==
    /\ h \in Elems(ctx.bus.subs)
    /\ ctx' = [ctx EXCEPT !.bus.subs = Without(@, h)]
    /\ BusUnchanged

\* An iteration over the list itself, not over a copy.
BusPendingLive(b) == b.subs

\* The handlers the running Emit iterates over: the copy it took.
BusPending(b) == b.snap

\* AppContext.Emit: the bus copies the list under its lock.
BusEmit ==
    /\ ~ctx.bus.emitting
    /\ ctx.bus.emits < MaxEmits
    /\ ctx' = [ctx EXCEPT !.bus.emitting = TRUE,
                          !.bus.snap = ctx.bus.subs,
                          !.bus.at = 1,
                          !.bus.got = <<>>,
                          !.bus.atEmit = ctx.bus.subs,
                          !.bus.emits = @ + 1]
    /\ BusUnchanged

\* Emit invokes the next handler, in the emitter's own context.
BusInvoke ==
    /\ ctx.bus.emitting
    /\ ctx.bus.at <= Len(BusPending(ctx.bus))
    /\ ctx' = [ctx EXCEPT !.bus.got = Append(@, BusPending(ctx.bus)[ctx.bus.at]),
                          !.bus.at = @ + 1]
    /\ BusUnchanged

\* Emit returns after the last handler.
BusEmitReturn ==
    /\ ctx.bus.emitting
    /\ ctx.bus.at > Len(BusPending(ctx.bus))
    /\ ctx' = [ctx EXCEPT !.bus.emitting = FALSE]
    /\ BusUnchanged

NextBus ==
    \/ \E h \in HandlerIDs : BusSubscribe(h)
    \/ \E h \in HandlerIDs : BusUnsubscribe(h)
    \/ BusEmit
    \/ BusInvoke
    \/ BusEmitReturn

SpecBus == InitCtx /\ [][NextBus]_vars

\* No handler occurs twice in the sequence.
NoRepeat(q) == \A i, j \in 1..Len(q) : q[i] = q[j] => i = j

ParsedRequest == mcp.handled > 0 /\ mcp.line.kind = "request"

\* C21: every response to a parsed request carries the correlation ID of
\* that request and exactly one of a result payload and an error object.
C21_ResponseWellFormed ==
    ParsedRequest
      => /\ mcp.resp.ID = mcp.line.req.ID
         /\ (mcp.resp.Error # 0) # (mcp.resp.Result # NoPayload)

\* No stop channel has been closed twice, and no listener of the RPC
\* server has been closed twice.
ClosedAtMostOnce ==
    /\ \A i \in 1..Len(plug.closes) : plug.closes[i] <= 1
    /\ plug.variant = "mcp" => \A i \in 1..Len(plug.made) : plug.made[i].closes <= 1

\* A Stop that finds the plugin not running returns nil and leaves the
\* plugin and the bridge as they are.
StopNotRunningStep ==
    \A c \in Callers :
        (StopLocked(c) \/ StopAll(c)) /\ ~plug.running
            => /\ plug' = Return(plug, c, "nil")
               /\ ctx' = ctx

\* C22: for both plugins and any interleaving of Start and Stop calls,
\* a Stop of a plugin that is not running returns nil and changes nothing,
\* every stop channel is closed at most once and every listener is closed
\* at most once.
C22_StopIsIdempotent == []ClosedAtMostOnce /\ [][StopNotRunningStep]_vars

\* Two Stops ran at the same time: the signal task's has closed the stop
\* channel, the main task's has found the plugin not running and returned nil.
C22_ConcurrentStops ==
    /\ plug.call["main"].of = "Stop"
    /\ plug.call["main"].ret = "nil"
    /\ plug.call["sig"].op = "StopAll"
    /\ plug.call["sig"].pc = "log"
    /\ plug.closes[plug.stopCh] = 1

\* Caller c's Start returns r in this step.
StartReturns(c, r) ==
    /\ plug.call[c].op = "Start"
    /\ plug'.call[c].of = "Start"
    /\ plug'.call[c].ret = r

\* The accept loops started by the Start that made stop channel gen.
AcceptLoops(p, gen) == {t \in p.tasks : t.kind = "accept" /\ t.run = gen}

\* C23: when the RPC server's Start returns nil in TCP mode the listener
\* it has bound is p.listener and the plugin reports running (unless a Stop
\* has closed that listener since); when Start returns the bind error the
\* plugin reports not running, the call has started no accept loop, and a
\* further Start would go ahead.
C23_StartBindsOrResets ==
    [][\A c \in Callers :
          /\ StartReturns(c, "nil") /\ plug.variant = "mcp" /\ plug.mode = "tcp"
                => \A t \in AcceptLoops(plug', plug.call[c].gen) :
                       plug'.made[t.res].open
                           => plug'.res = t.res /\ plug'.running
          /\ StartReturns(c, "err") /\ plug.variant = "mcp"
                => /\ ~plug'.running
                   /\ AcceptLoops(plug', plug.call[c].gen) = {}
                   /\ StartSection(Call(plug', c, "Start"), c).running]_vars

\* Start and Stop called one after the other only: no signal has arrived.
Sequential == plug.sig \in {"none", "wait"}

\* Without a concurrent Stop, Start's success leaves the listener bound and
\* the plugin running.
StartBindsSequentially ==
    [][\A c \in Callers :
          StartReturns(c, "nil") /\ plug.variant = "mcp" /\ plug.mode = "tcp"
              /\ Sequential /\ CtxSet(plug)
                => /\ plug'.res # 0
                   /\ plug'.made[plug'.res].open
                   /\ plug'.running]_vars

\* The RPC server's tasks: the accept loop, the connection tasks, the
\* stdio session.
ServerTasks == {t \in plug.tasks : t.kind \in {"accept", "conn", "stdio"}}

\* C24: after a Stop of the RPC server, no task of the stopped run answers
\* a request or tries another accept, whatever Start and Stop calls follow.
C24_StoppedRunExits == \A t \in ServerTasks : ~t.late

\* A task outlives the stop of its run only when a later Start has made a
\* new stop channel.
LateOnlyAfterRestart == \A t \in ServerTasks : t.late => plug.stopCh > t.run

\* C25: on every path of the program a Start is in progress only on an
\* instance whose Init has been called, Init is called at most once, and
\* no Start meets a nil p.ctx.
C25_StartAfterInit ==
    /\ \A c \in Callers : plug.call[c].op = "Start" => CtxSet(plug)
    /\ plug.inits <= 1
    /\ plug.fault # "nil ctx"

\* The same on the path of runApp alone.
StartAfterInitInApp == plug.path = "app" => C25_StartAfterInit

\* Caller c's StopAll returns in this step.
StopAllReturns(c) ==
    /\ plug.call[c].op = "StopAll"
    /\ plug'.call[c].of = "StopAll"

\* Caller c takes a step of a StopAll that was called after an earlier
\* StopAll had returned, and no Start has gone ahead since that call.
FurtherStopAllStep(c) ==
    /\ plug.call[c].op = "StopAll"
    /\ plug.call[c].again
    /\ plug.call[c].gen = plug.starts
    /\ plug'.call[c] # plug.call[c]

\* C26: StopAll may be called again and again, by the signal task and the
\* main task at once: when a StopAll returns and no Start has gone ahead
\* since it was called the plugin is not running; a further StopAll
\* changes nothing, raises no fault and returns nil; no stop channel and no
\* listener is closed twice.
C26_StopAllIsIdempotent ==
    /\ []ClosedAtMostOnce
    /\ [][\A c \in Callers :
            /\ StopAllReturns(c) /\ plug'.starts = plug.call[c].gen => ~plug'.running
            /\ FurtherStopAllStep(c)
                  => /\ plug' = [plug EXCEPT !.call[c] = plug'.call[c]]
                     /\ ctx' = ctx
                     /\ StopAllReturns(c) => plug'.call[c].ret = "nil"]_vars

\* The plugin has been started and stopped, the signal task's StopAll has
\* returned, and runApp's last StopAll, called after gracefulShutdown's,
\* has returned nil.
C26_StopAllCalledAgain ==
    /\ plug.main = "Final"
    /\ plug.call["main"].of = "StopAll"
    /\ plug.call["main"].again
    /\ plug.call["main"].ret = "nil"
    /\ plug.call["sig"].of = "StopAll"
    /\ plug.closes[plug.stopCh] = 1

\* C28: a message of the host never lands in the log of a user process:
\* addLog appends to the "system" process only.
C28_AddLogOnlyToSystem ==
    \A i \in 1..Len(processes) :
        processes[i].ID # SystemID => HostLines(processes[i]) = {}

\* When the list starts with the "system" process, the host's lines are in
\* that process alone.
HostLinesInSystemWhenFirst ==
    Len(processes) > 0 /\ processes[1].ID = SystemID
        => \A i \in 2..Len(processes) : HostLines(processes[i]) = {}

\* The values the get_all_logs schema lists for its status filter, and the
\* engine status each one stands for.
SchemaStatuses == {"running", "success", "failed", "canceled"}

EngineStatus(f) ==
    CASE f = "running" -> ProcessRunning
      [] f = "success" -> ProcessSuccess
      [] f = "failed" -> ProcessFailed
      [] f = "canceled" -> ProcessCancelled

\* toolGetAllLogs with a status filter and no other: the IDs of the
\* processes in the result.
StatusFilter(infos, f) == {infos[i].ID : i \in {j \in 1..Len(infos) : infos[j].Status = f}}

\* The host's processes whose status is s.
WithStatus(s) == {processes[i].ID : i \in {j \in 1..Len(processes) : processes[j].Status = s}}

\* C29: get_all_logs with a status filter of the schema's enumeration
\* returns exactly the processes whose engine status is the corresponding one.
C29_StatusFilterIsExact ==
    \A f \in SchemaStatuses : StatusFilter(GetProcesses, f) = WithStatus(EngineStatus(f))

\* The filter applied to the status texts of the host's current list: exact
\* for the three values that the callback's switch spells as the schema does.
CurrentInfos == [i \in 1..Len(processes) |-> ProcessInfo(processes[i])]

FilterExactOnCurrentList ==
    \A f \in SchemaStatuses \ {"canceled"} :
        StatusFilter(CurrentInfos, f) = WithStatus(EngineStatus(f))

\* The same for the value "canceled".
CanceledExactOnCurrentList ==
    StatusFilter(CurrentInfos, "canceled") = WithStatus(ProcessCancelled)

\* Command n has written exactly one line, on stdout, which its reader has
\* scanned, and has exited with code 0.
EchoHi(n) == eng[n].os = "exit0" /\ eng[n].scanned = <<1, 0>>

\* The positions in the list of the process of command n, once it has ended
\* without the Kill key.
EndedOf(n) ==
    {i \in 1..Len(processes) :
        /\ processes[i].ID = ProcID(n)
        /\ processes[i].Status \in {ProcessSuccess, ProcessFailed}}

\* C30: a process whose command writes exactly one line and exits with code
\* 0 ends with status Success, its end time set after its start, and a log
\* that consists of that line alone.
C30_EchoHiLog ==
    \A n \in Procs : EchoHi(n) =>
        \A i \in EndedOf(n) :
            /\ processes[i].Status = ProcessSuccess
            /\ processes[i].EndTime # ZeroTime
            /\ processes[i].Logs = <<OutLine(n, 1, 1)>>

\* The log of process p without the lines of the host.
OwnLog(p) == SelectSeq(p.Logs, LAMBDA l : l[1] \notin HostTexts)

\* What the code gives while the program has not crashed: Success, the end
\* time set, and the line between the command line that createProcess
\* writes (and the dev server's second line) and the mark of the finished
\* handler.
EchoHiLogAsCoded ==
    \A n \in Procs : EchoHi(n) /\ ~crashed =>
        \A i \in EndedOf(n) :
            /\ processes[i].Status = ProcessSuccess
            /\ processes[i].EndTime # ZeroTime
            /\ OwnLog(processes[i]) \in
                 {<<Text("$ command"), OutLine(n, 1, 1), Text("Done")>>,
                  <<Text("$ command"), Text("Starting dev server"),
                    OutLine(n, 1, 1), Text("Done")>>}

\* The same when the program has crashed.
EchoHiLogAfterCrash ==
    \A n \in Procs : EchoHi(n) /\ crashed =>
        \A i \in EndedOf(n) : \E k \in 1..Len(processes[i].Logs) :
            processes[i].Logs[k] = OutLine(n, 1, 1)

\* A message of the loop's inbox that would arm a subscription for command n
\* when handled, or a subscription that is armed.
OutputPending(n) == \E msg \in BagToSet(inbox) : msg.type = "processOutput" /\ msg.n = n
StartPending(n) == BagIn(processStartedMsg(n), inbox)
Subscribed(n) == eng[n].waiters > 0 \/ OutputPending(n) \/ StartPending(n)

\* C31: the closure of the output queue is the only completion signal and is
\* observed once: a command yields at most one finished message; when it has
\* been produced the queue is closed, every line enqueued has been received
\* and handled, and no subscription is armed or about to be; and a started
\* command leaves its chain of subscriptions only by the finished message.
C31_ClosureObservedOnce ==
    \A n \in Procs :
        /\ eng[n].finished <= 1
        /\ eng[n].finished = 1 =>
              eng[n].closed /\ eng[n].buf = <<>> /\ ~Subscribed(n)
        /\ eng[n].run = "spawned" /\ ~Subscribed(n) => eng[n].finished = 1

\* A started command whose line was handled by the loop before its finished
\* message was produced and handled.
C31_FinishedAfterLines ==
    \E n \in Procs : \E i \in 1..Len(processes) :
        /\ eng[n].run = "spawned"
        /\ eng[n].finished = 1
        /\ processes[i].ID = ProcID(n)
        /\ processes[i].Status = ProcessSuccess
        /\ \E k \in 1..Len(processes[i].Logs) : processes[i].Logs[k][1] = "out"

\* A step in which a reader task of command n enqueues a line.
ReaderSends(n) == eng'[n].scanned # eng[n].scanned

\* C32: in no interleaving of the two reader tasks and the wait task does a
\* reader enqueue a line on the output queue after the wait task closed it.
C32_NoSendOnClosedQueue ==
    [][\A n \in Procs : ReaderSends(n) => ~eng[n].closed]_vars

\* The enqueues on a closed queue are the only fault of the process engine:
\* the program has crashed only if some command's queue is closed while a
\* reader has scanned a line.
CrashOnlyBySendOnClosed ==
    crashed => \E n \in Procs :
        eng[n].closed /\ eng[n].scanned[1] + eng[n].scanned[2] > 0

\* The subscriptions of command n that are armed, and the messages in the
\* loop's inbox whose handling arms one.
Outstanding(n) ==
    LET S == {msg \in BagToSet(inbox) :
                 msg.n = n /\ msg.type \in {"processStarted", "processOutput"}}
    IN  eng[n].waiters + Cardinality(S)
          + Cardinality({msg \in S : CopiesIn(msg, inbox) > 1})

\* The loop handles a message of the type for command n in this step.
Handled(type, n) ==
    \E msg \in BagToSet(inbox) :
        msg.type = type /\ msg.n = n /\ CopiesIn(msg, inbox') < CopiesIn(msg, inbox)

\* A step arms one subscription for n when it handles the started message
\* or an output message while the queue is registered, and otherwise none.
ArmStep ==
    \A n \in Procs :
        LET arm == \/ Handled("processStarted", n)
                   \/ Handled("processOutput", n) /\ n \in outputChans
        IN  /\ arm => eng'[n].waiters = eng[n].waiters + 1
            /\ ~arm => eng'[n].waiters <= eng[n].waiters

\* C33: at every moment at most one subscription per process is armed or
\* about to be: one is armed by the started handler, one by each output
\* handler while the queue is registered, and none once the finished message
\* has been produced.
C33_OneSubscription ==
    /\ [](\A n \in Procs : /\ Outstanding(n) <= 1
                           /\ eng[n].finished > 0 => Outstanding(n) = 0)
    /\ [][ArmStep]_vars

\* The subscription that the output handler armed again after a line.
C33_ArmedAgain ==
    \E n \in outputChans : \E i \in 1..Len(processes) :
        /\ eng[n].waiters = 1
        /\ processes[i].ID = ProcID(n)
        /\ \E k \in 1..Len(processes[i].Logs) : processes[i].Logs[k][1] = "out"

\* No Start, Stop or StopAll call is in progress.
NoCallInProgress == \A c \in Callers : plug.call[c].op = "none"

\* A listener the RPC server has bound is open.
ListenerBound == \E i \in 1..Len(plug.made) : plug.made[i].open

\* C34: for the RPC server in TCP mode, whenever no Start or Stop call is in
\* progress the plugin reports running if and only if a listener is bound.
C34_RunningIffListening ==
    (plug.variant = "mcp" /\ plug.mode = "tcp" /\ plug.fault = "none" /\ NoCallInProgress)
        => (plug.running <=> ListenerBound)

\* The same while no signal has arrived: the calls of the main task alone
\* keep the flag and the listener together.
RunningIffListeningSequentially ==
    (plug.variant = "mcp" /\ plug.mode = "tcp" /\ plug.fault = "none" /\ NoCallInProgress
        /\ Sequential)
        => /\ plug.running <=> ListenerBound
           /\ plug.running => plug.res # 0 /\ plug.made[plug.res].open

\* The runStdio tasks that are reading standard input.
StdioReaders == {t \in plug.tasks : t.kind = "stdio" /\ t.live}

\* C35: in standard-stream mode at most one session reader task is reading
\* standard input at any time, across any sequence of Start and Stop.
C35_OneStdioReader == Cardinality(StdioReaders) <= 1

\* Each Start starts one reader, and a reader that finds the channel closed
\* at its next line returns: two readers are never of the same run.
OneStdioReaderPerRun ==
    \A t, u \in StdioReaders : t.run = u.run => t = u

\* The command the supervisor's latest successful Start spawned is alive and
\* no Stop has run since that Start: the waiting task of the command, whose
\* run's stop channel is still open.
LatestRunAlive(t) ==
    /\ plug.variant = "firebase"
    /\ t.kind = "waiter"
    /\ t.res = Len(plug.made)
    /\ plug.made[t.res].open
    /\ plug.closes[t.run] = 0

\* C36: for the emulator supervisor, while the subprocess spawned by the
\* latest successful Start is alive and Stop has not been called since, the
\* plugin reports running and its handle refers to that subprocess, whatever
\* the subprocess of an earlier run does.
C36_LaterRunKeepsState ==
    \A t \in plug.tasks : LatestRunAlive(t) => plug.running /\ plug.res = t.res

\* The same for the first run of the program, which no earlier subprocess
\* can disturb.
FirstRunKeepsState ==
    \A t \in plug.tasks :
        LatestRunAlive(t) /\ t.res = 1 => plug.running /\ plug.res = t.res

\* C37: the emulator supervisor's Stop never faults: the task it starts to
\* wait for the subprocess never uses a handle that the exit task cleared.
C37_StopNeverFaults == plug.fault # "nil cmd"

\* Stop starts the task only while it holds p.mu and p.cmd is set: the
\* handle is there when the task is started, and the task of a run that the
\* exit task has not yet ended finds it.
ReaperStartedWithHandle ==
    \A t \in plug.tasks : t.kind = "reaper" =>
        /\ t.res # 0
        /\ (t.live /\ plug.fault = "none" /\ plug.res = 0) =>
               \E u \in plug.tasks : u.kind = "waiter" /\ ~u.live

\* C38: whenever the emulator supervisor reports not running, no service is
\* reported as running and GetEmulatorURL returns the empty string for
\* every service.
C38_NotRunningNoService ==
    (plug.variant = "firebase" /\ ~plug.running)
        => /\ ~plug.emulators
           /\ \A name \in Services : GetEmulatorURL(plug, name) = ""

\* The exit task has recorded the exit of the latest command and no Start
\* has gone ahead since.
ExitRecorded ==
    \E t \in plug.tasks :
        /\ t.kind = "waiter" /\ ~t.live
        /\ t.res = Len(plug.made)
        /\ t.run = plug.starts + 1

\* The step that records the exit clears the flags.
ExitClearsFlags ==
    [][~ExitRecorded /\ ExitRecorded' => ~plug'.emulators /\ ~plug'.running]_vars

\* The flags stay cleared from the recorded exit until the next Start: a
\* reader task that handles a line the command wrote before its exit sets
\* the flag again.
FlagsStayCleared == ExitRecorded => ~plug.emulators

\* The numbers of the IDs that createProcess issued to the processes of the
\* list, in list order.
IssuedAt(i) == processes[i].ID[2]
Issued == {i \in 1..Len(processes) : processes[i].ID[1] = "p"}

\* C39: in every reachable state no two entries of the process list have
\* the same ID: the IDs that createProcess issued increase strictly in
\* creation order and none is issued again, and at most one "system" process
\* exists.
C39_UniqueIDs ==
    /\ \A i, j \in 1..Len(processes) : processes[i].ID = processes[j].ID => i = j
    /\ \A i, j \in Issued : i < j => IssuedAt(i) < IssuedAt(j)
    /\ Cardinality({i \in 1..Len(processes) : processes[i].ID = SystemID}) <= 1

\* On the list that starts empty every number in the list is below the
\* counter, so that the next ID is new.
IssuedBelowCounter == \A i \in Issued : IssuedAt(i) < nextProcessID

\* What createProcess itself does, on any list: the process it appends has
\* the number of the counter, and the counter goes up by one.
IssuedIDsIncrease ==
    [][Len(processes') > Len(processes) /\ processes'[Len(processes')].ID # SystemID
          => /\ processes'[Len(processes')].ID = ProcID(nextProcessID)
             /\ nextProcessID' = nextProcessID + 1]_vars

\* addLog creates the "system" process on the empty list only: it is the
\* first of the list and the only one.
SystemProcessIsFirst ==
    \A i \in 1..Len(processes) : processes[i].ID = SystemID => i = 1

====
